---- MODULE Spec2Model ----
(***************************************************************************)
(* A model of the Nachos MP4 file system: the multi-level file header      *)
(* (filehdr.cc), the path resolver and the facade operations Create,       *)
(* Mkdir and Remove (filesys.cc), over a sector-addressed disk.            *)
(*                                                                         *)
(* The disk is modelled cell by cell: a sector is a sequence of SectorSize *)
(* integer cells, a file header is laid out in its sector as the code lays *)
(* it out (numBytes, numDataSectors, dataSectors[NUM_DIRECT]), a directory  *)
(* table and the free bitmap are serialised into the data sectors of their *)
(* files.  The geometry is scaled down (one cell stands for one int); the  *)
(* relations between the constants are the ones of the source.             *)
(***************************************************************************)
EXTENDS Integers, Sequences, FiniteSets, TLC

VARIABLES disk, freeMapFile, directoryFile, OpenFileTable, last, snap, nops,
          io, hd

vars ==
  <<disk, freeMapFile, directoryFile, OpenFileTable, last, snap, nops, io, hd>>

(***************************************************************************)
(* Geometry and program constants (scaled).                                *)
(***************************************************************************)
\* disk.h: bytes per sector; here cells per sector
SectorSize == 4
\* disk.h: SectorsPerTrack * NumTracks
NumSectors == 32
\* bitmap.h
BitsInByte == 8
\* sizeof(int), in cells
IntSize == 1
INVALID_SECTOR == -1
LEVEL_LIMIT == 4
FreeMapSector == 0
DirectorySector == 1
NumDirEntries == 2
FileNameMaxLen == 2
\* sizeof(DirectoryEntry), in cells: isDir, inUse, sector, name
DirEntrySize == 4
PATH_NAME_MAX_LEN == 8
FILE_OPEN_LIMIT == 2

NUM_DIRECT == (SectorSize - 2 * IntSize) \div IntSize

RECURSIVE Pow(_, _)
Pow(b, e) == IF e = 0 THEN 1 ELSE b * Pow(b, e - 1)

\* MAX_SIZE[lv], lv in 0..LEVEL_LIMIT-1
MAX_SIZE(lv) == Pow(NUM_DIRECT, lv + 1) * SectorSize

FreeMapFileSize == NumSectors \div BitsInByte
DirectoryFileSize == DirEntrySize * NumDirEntries

Sectors == 0 .. (NumSectors - 1)

divRoundUp(n, s) == (n + s - 1) \div s

Min(a, b) == IF a < b THEN a ELSE b

\* Body applied to the value v: a local variable assigned once
With(v, Body(_)) == Body(v)

(***************************************************************************)
(* Bounds of the exploration.                                              *)
(***************************************************************************)
\* number of facade calls in one run
MaxOps == 3
\* number of components of a well-formed path
MaxDepth == 2
\* number of Create calls before the descriptor table is used
MaxCreates == 2
\* number of calls on the descriptor table in one run
MaxTableOps == 5

(***************************************************************************)
(* The free-sector bitmap in memory: the set of marked sectors.            *)
(***************************************************************************)
NumClear(fm) == NumSectors - Cardinality(fm)

\* Bitmap::Test asserts that the index is in range
TestInRange(s) == s \in Sectors

\* the sector FindAndSet returns: the smallest clear bit, or -1
FindClear(fm) ==
  IF fm = Sectors THEN INVALID_SECTOR
  ELSE CHOOSE s \in Sectors \ fm : \A t \in Sectors \ fm : s <= t

(***************************************************************************)
(* FileHeader in memory.                                                   *)
(***************************************************************************)
NoSectors == [i \in 1 .. NUM_DIRECT |-> INVALID_SECTOR]

\* a header after the constructor's clear()
NewFileHeader ==
  [numBytes |-> -1, numDataSectors |-> -1, dataSectors |-> NoSectors,
   children |-> <<>>, dataSectorMapping |-> <<>>]

\* whichLv with the last comparison < where the code compares with <=
whichLvMutLt(fileSize) ==
  IF fileSize <= MAX_SIZE(0) THEN 0
  ELSE IF fileSize <= MAX_SIZE(1) THEN 1
  ELSE IF fileSize <= MAX_SIZE(2) THEN 2
  ELSE IF fileSize < MAX_SIZE(3) THEN 3
  ELSE -1

\* FileHeader::whichLv; -1 stands for ASSERTNOTREACHED
whichLv(fileSize) ==
  IF fileSize <= MAX_SIZE(0) THEN 0
  ELSE IF fileSize <= MAX_SIZE(1) THEN 1
  ELSE IF fileSize <= MAX_SIZE(2) THEN 2
  ELSE IF fileSize <= MAX_SIZE(3) THEN 3
  ELSE -1

\* the direct loop of Allocate finding a clear sector without setting its
\* bit, where the code calls FindAndSet
RECURSIVE AllocateDirectMutNoSet(_, _, _, _)
AllocateDirectMutNoSet(fm, hdr, i, n) ==
  IF i > n THEN [ok |-> TRUE, fm |-> fm, hdr |-> hdr]
  ELSE With(FindClear(fm), LAMBDA s :
       IF s = INVALID_SECTOR \/ i > NUM_DIRECT
       THEN [ok |-> FALSE, fm |-> fm, hdr |-> hdr]
       ELSE AllocateDirectMutNoSet(fm,
              [hdr EXCEPT !.dataSectors[i] = s,
                          !.dataSectorMapping = Append(@, s)],
              i + 1, n))

\* the direct loop of Allocate: n data sectors, taken smallest first
RECURSIVE AllocateDirect(_, _, _, _)
AllocateDirect(fm, hdr, i, n) ==
  IF i > n THEN [ok |-> TRUE, fm |-> fm, hdr |-> hdr]
  ELSE With(FindClear(fm), LAMBDA s :
       IF s = INVALID_SECTOR \/ i > NUM_DIRECT
       THEN [ok |-> FALSE, fm |-> fm, hdr |-> hdr]
       ELSE AllocateDirect(fm \cup {s},
              [hdr EXCEPT !.dataSectors[i] = s,
                          !.dataSectorMapping = Append(@, s)],
              i + 1, n))

\* pSectors.insert(...) unless the two vectors are equal
MergeMapping(pSectors, mapping) ==
  IF mapping # pSectors THEN pSectors \o mapping ELSE pSectors

RECURSIVE Allocate(_, _)
RECURSIVE AllocateChildren(_, _, _, _, _)

\* the while loop of Allocate giving the first child the remainder, where the
\* code gives every child but the last MAX_SIZE[lv - 1] bytes
RECURSIVE AllocateChildrenMutRemainderFirst(_, _, _, _, _)
AllocateChildrenMutRemainderFirst(fm, hdr, lv, fileSize, i) ==
  IF fileSize <= 0 THEN [ok |-> TRUE, fm |-> fm, hdr |-> hdr]
  ELSE With(FindClear(fm), LAMBDA s :
       IF s = INVALID_SECTOR \/ i > NUM_DIRECT
       THEN [ok |-> FALSE, fm |-> fm, hdr |-> hdr]
       ELSE With(IF fileSize % MAX_SIZE(lv - 1) # 0
                 THEN fileSize % MAX_SIZE(lv - 1)
                 ELSE MAX_SIZE(lv - 1), LAMBDA subHdrSize :
            With(Allocate(fm \cup {s}, subHdrSize), LAMBDA c :
            With([hdr EXCEPT
                    !.dataSectors[i] = s,
                    !.children = Append(@, c.hdr),
                    !.dataSectorMapping =
                       MergeMapping(@, c.hdr.dataSectorMapping)], LAMBDA h1 :
            IF ~c.ok THEN [ok |-> FALSE, fm |-> c.fm, hdr |-> h1]
            ELSE AllocateChildrenMutRemainderFirst(c.fm, h1, lv,
                                                   fileSize - subHdrSize,
                                                   i + 1)))))

\* the while loop of Allocate cutting the file into chunks of one level too
\* low, where the code cuts it into chunks of MAX_SIZE[lv - 1] bytes
RECURSIVE AllocateChildrenMutSmallChunk(_, _, _, _, _)
AllocateChildrenMutSmallChunk(fm, hdr, lv, fileSize, i) ==
  IF fileSize <= 0 THEN [ok |-> TRUE, fm |-> fm, hdr |-> hdr]
  ELSE With(FindClear(fm), LAMBDA s :
       IF s = INVALID_SECTOR \/ i > NUM_DIRECT
       THEN [ok |-> FALSE, fm |-> fm, hdr |-> hdr]
       ELSE With(Min(fileSize, MAX_SIZE(IF lv > 1 THEN lv - 2 ELSE 0)),
                 LAMBDA subHdrSize :
            With(Allocate(fm \cup {s}, subHdrSize), LAMBDA c :
            With([hdr EXCEPT
                    !.dataSectors[i] = s,
                    !.children = Append(@, c.hdr),
                    !.dataSectorMapping =
                       MergeMapping(@, c.hdr.dataSectorMapping)], LAMBDA h1 :
            IF ~c.ok THEN [ok |-> FALSE, fm |-> c.fm, hdr |-> h1]
            ELSE AllocateChildrenMutSmallChunk(c.fm, h1, lv,
                                               fileSize - subHdrSize,
                                               i + 1)))))

\* the while loop of Allocate for lv > 0; the child's return value is dropped
AllocateChildren(fm, hdr, lv, fileSize, i) ==
  IF fileSize <= 0 THEN [ok |-> TRUE, fm |-> fm, hdr |-> hdr]
  ELSE With(FindClear(fm), LAMBDA s :
       IF s = INVALID_SECTOR \/ i > NUM_DIRECT
       THEN [ok |-> FALSE, fm |-> fm, hdr |-> hdr]
       ELSE With(Min(fileSize, MAX_SIZE(lv - 1)), LAMBDA subHdrSize :
            With(Allocate(fm \cup {s}, subHdrSize), LAMBDA c :
            With([hdr EXCEPT
                    !.dataSectors[i] = s,
                    !.children = Append(@, c.hdr),
                    !.dataSectorMapping =
                       MergeMapping(@, c.hdr.dataSectorMapping)], LAMBDA h1 :
            IF ~c.ok THEN [ok |-> FALSE, fm |-> c.fm, hdr |-> h1]
            ELSE AllocateChildren(c.fm, h1, lv, fileSize - subHdrSize, i + 1)))))

\* FileHeader::Allocate on a fresh header.  ok = FALSE: an ASSERT failed;
\* ret: the value returned.
Allocate(fm, fileSize) ==
  LET nds == divRoundUp(fileSize, SectorSize)
      h0 == [NewFileHeader EXCEPT !.numBytes = fileSize, !.numDataSectors = nds]
      lv == whichLv(fileSize)
  IN IF NumClear(fm) < nds
     THEN [ok |-> TRUE, ret |-> FALSE, fm |-> fm, hdr |-> h0]
     ELSE IF lv = -1
     THEN [ok |-> FALSE, ret |-> FALSE, fm |-> fm, hdr |-> h0]
     ELSE With(IF lv = 0 THEN AllocateDirect(fm, h0, 1, nds)
               ELSE AllocateChildren(fm, h0, lv, fileSize, 1),
               LAMBDA r : [ok |-> r.ok, ret |-> r.ok, fm |-> r.fm, hdr |-> r.hdr])

\* the index one past the last non-sentinel slot of dataSectors
RECURSIVE NumChildren(_, _)
NumChildren(ds, i) ==
  IF i > NUM_DIRECT THEN NUM_DIRECT
  ELSE IF ds[i] = INVALID_SECTOR THEN i - 1
  ELSE NumChildren(ds, i + 1)

RECURSIVE Deallocate(_, _)
RECURSIVE DeallocateDirect(_, _, _)
RECURSIVE DeallocateChildren(_, _, _)

DeallocateDirect(fm, hdr, i) ==
  IF i > hdr.numDataSectors THEN [ok |-> TRUE, fm |-> fm]
  ELSE IF i > NUM_DIRECT THEN [ok |-> FALSE, fm |-> fm]
  ELSE LET s == hdr.dataSectors[i]
       IN IF ~TestInRange(s) \/ s \notin fm THEN [ok |-> FALSE, fm |-> fm]
          ELSE DeallocateDirect(fm \ {s}, hdr, i + 1)

DeallocateChildren(fm, hdr, i) ==
  IF i > NumChildren(hdr.dataSectors, 1) THEN [ok |-> TRUE, fm |-> fm]
  ELSE IF i > Len(hdr.children) THEN [ok |-> FALSE, fm |-> fm]
  ELSE With(Deallocate(fm, hdr.children[i]), LAMBDA r :
       IF ~r.ok THEN r ELSE DeallocateChildren(r.fm, hdr, i + 1))

\* FileHeader::Deallocate
Deallocate(fm, hdr) ==
  LET lv == whichLv(hdr.numBytes)
  IN IF lv = -1 THEN [ok |-> FALSE, fm |-> fm]
     ELSE IF lv = 0 THEN DeallocateDirect(fm, hdr, 1)
     ELSE DeallocateChildren(fm, hdr, 1)

(***************************************************************************)
(* The disk and the calls on it.  A machine m is the disk, the log of the  *)
(* sectors written by the call in progress, and ok: FALSE once an ASSERT   *)
(* has failed (the kernel aborts; nothing more is written).                *)
(***************************************************************************)
ZeroSector == [i \in 1 .. SectorSize |-> 0]

Machine(d) == [disk |-> d, log |-> <<>>, ok |-> TRUE]

Abort(m) == [m EXCEPT !.ok = FALSE]

\* SynchDisk::WriteSector; the disk asserts the sector number is in range
WriteSector(m, s, data, kind) ==
  IF ~m.ok THEN m
  ELSE IF s \notin Sectors THEN Abort(m)
  ELSE [m EXCEPT !.disk[s] = data, !.log = Append(@, [s |-> s, k |-> kind])]

\* a sector image storing dataSectors[] last slot first when every slot is
\* in use, where the code copies the array in order
HeaderImageMutReversed(hdr) ==
  [i \in 1 .. SectorSize |->
     IF i = 1 THEN hdr.numBytes
     ELSE IF i = 2 THEN hdr.numDataSectors
     ELSE IF hdr.dataSectors[NUM_DIRECT] = INVALID_SECTOR
     THEN hdr.dataSectors[i - 2]
     ELSE hdr.dataSectors[NUM_DIRECT + 3 - i]]

\* the sector image of a header: numBytes, numDataSectors, dataSectors[]
HeaderImage(hdr) ==
  [i \in 1 .. SectorSize |->
     IF i = 1 THEN hdr.numBytes
     ELSE IF i = 2 THEN hdr.numDataSectors
     ELSE hdr.dataSectors[i - 2]]

RECURSIVE FetchFrom(_, _, _)
RECURSIVE FetchChildren(_, _, _, _)

FetchChildren(d, hdr, i, depth) ==
  IF i > NumChildren(hdr.dataSectors, 1) THEN [ok |-> TRUE, hdr |-> hdr]
  ELSE With(FetchFrom(d, hdr.dataSectors[i], depth + 1), LAMBDA c :
       With([hdr EXCEPT
               !.children = Append(@, c.hdr),
               !.dataSectorMapping =
                  MergeMapping(@, c.hdr.dataSectorMapping)], LAMBDA h1 :
       IF ~c.ok THEN [ok |-> FALSE, hdr |-> h1]
       ELSE FetchChildren(d, h1, i + 1, depth)))

\* FileHeader::FetchFrom into a fresh header.  ok = FALSE: the read left the
\* disk, whichLv hit ASSERTNOTREACHED, the leaf loop ran past dataSectors, or
\* the recursion did not end within the levels a header can have.
FetchFrom(d, sector, depth) ==
  IF sector \notin Sectors \/ depth > LEVEL_LIMIT
  THEN [ok |-> FALSE, hdr |-> NewFileHeader]
  ELSE With(d[sector], LAMBDA buf :
       With([NewFileHeader EXCEPT
               !.numBytes = buf[1],
               !.numDataSectors = buf[2],
               !.dataSectors = [i \in 1 .. NUM_DIRECT |-> buf[i + 2]]], LAMBDA h0 :
       With(whichLv(h0.numBytes), LAMBDA lv :
       IF lv = -1 THEN [ok |-> FALSE, hdr |-> h0]
       ELSE IF lv = 0
       THEN IF h0.numDataSectors > NUM_DIRECT THEN [ok |-> FALSE, hdr |-> h0]
            ELSE [ok |-> TRUE,
                  hdr |-> [h0 EXCEPT !.dataSectorMapping =
                             [i \in 1 .. h0.numDataSectors |-> h0.dataSectors[i]]]]
       ELSE FetchChildren(d, h0, 1, depth))))

RECURSIVE WriteBack(_, _, _)
RECURSIVE WriteBackChildren(_, _, _)

WriteBackChildren(m, hdr, i) ==
  IF ~m.ok \/ i > NumChildren(hdr.dataSectors, 1) THEN m
  ELSE IF i > Len(hdr.children) THEN Abort(m)
  ELSE WriteBackChildren(WriteBack(m, hdr.children[i], hdr.dataSectors[i]),
                         hdr, i + 1)

\* FileHeader::WriteBack: the header's own sector, then the child headers
WriteBack(m, hdr, sector) ==
  With(WriteSector(m, sector, HeaderImage(hdr), "hdr"), LAMBDA m1 :
  With(whichLv(hdr.numBytes), LAMBDA lv :
  IF ~m1.ok THEN m1
  ELSE IF lv = -1 THEN Abort(m1)
  ELSE IF lv = 0 THEN m1
  ELSE WriteBackChildren(m1, hdr, 1)))

\* FileHeader::ByteToSector: -2 stands for the failed ASSERT
ByteToSector(hdr, offset) ==
  LET logicalSector == offset \div SectorSize
      sectorsSz == Len(hdr.dataSectorMapping)
  IN IF logicalSector >= 0 /\ logicalSector < sectorsSz
        /\ sectorsSz = hdr.numDataSectors
     THEN hdr.dataSectorMapping[logicalSector + 1]
     ELSE -2

FileLength(hdr) == hdr.numBytes

(***************************************************************************)
(* OpenFile: a fetched header; ReadAt / WriteAt from position 0.           *)
(***************************************************************************)
\* new OpenFile(sector)
OpenFile(d, sector) == FetchFrom(d, sector, 0)

\* the number of bytes ReadAt / WriteAt transfer from position 0
Clamp(hdr, numBytes) ==
  IF numBytes <= 0 \/ 0 >= FileLength(hdr) THEN 0
  ELSE Min(numBytes, FileLength(hdr))

\* the sectors ByteToSector gives for the first n bytes all exist
SectorsOk(hdr, n) ==
  \A b \in 0 .. (n - 1) : ByteToSector(hdr, b) \in Sectors

\* OpenFile::ReadAt(into, numBytes, 0): the bytes read, in file order
ReadAt(d, hdr, numBytes) ==
  With(Clamp(hdr, numBytes), LAMBDA n :
  IF ~SectorsOk(hdr, n) THEN [ok |-> FALSE, data |-> <<>>]
  ELSE [ok |-> TRUE,
        data |-> [b \in 1 .. n |->
                    d[ByteToSector(hdr, b - 1)][((b - 1) % SectorSize) + 1]]])

RECURSIVE WriteSectors(_, _, _, _, _, _)
WriteSectors(m, hdr, data, n, i, kind) ==
  IF ~m.ok \/ i * SectorSize >= n THEN m
  ELSE With(ByteToSector(hdr, i * SectorSize), LAMBDA s :
       IF s \notin Sectors THEN Abort(m)
       ELSE WriteSectors(
              WriteSector(m, s,
                          [j \in 1 .. SectorSize |->
                             IF i * SectorSize + j <= n
                             THEN data[i * SectorSize + j]
                             ELSE m.disk[s][j]],
                          kind),
              hdr, data, n, i + 1, kind))

\* OpenFile::WriteAt(from, numBytes, 0): whole sectors are written, first to
\* last; the tail of the last sector keeps what the sector held
WriteAt(m, hdr, data, kind) ==
  WriteSectors(m, hdr, data, Clamp(hdr, Len(data)), 0, kind)

(***************************************************************************)
(* PersistentBitmap: the bitmap serialised into the free-map file, one     *)
(* cell per BitsInByte bits.                                               *)
(***************************************************************************)
RECURSIVE BitsToCell(_, _, _)
BitsToCell(fm, base, j) ==
  IF j >= BitsInByte THEN 0
  ELSE (IF (base + j) \in fm THEN Pow(2, j) ELSE 0) + BitsToCell(fm, base, j + 1)

BitmapImage(fm) ==
  [k \in 1 .. divRoundUp(NumSectors, BitsInByte) |->
     BitsToCell(fm, (k - 1) * BitsInByte, 0)]

\* bits of the cells read; bits beyond what was read stay clear
ImageBitmap(data) ==
  {s \in Sectors :
     /\ (s \div BitsInByte) + 1 <= Len(data)
     /\ (data[(s \div BitsInByte) + 1] \div Pow(2, s % BitsInByte)) % 2 = 1}

\* new PersistentBitmap(file, NumSectors)
LoadFreeMap(d, file) ==
  With(ReadAt(d, file, divRoundUp(NumSectors, BitsInByte)), LAMBDA r :
  [ok |-> r.ok, fm |-> ImageBitmap(r.data)])

\* PersistentBitmap::WriteBack(file)
FreeMapWriteBack(m, file, fm) == WriteAt(m, file, BitmapImage(fm), "map")

(***************************************************************************)
(* Directory: a table of NumDirEntries entries, stored as the content of   *)
(* the directory's file.                                                   *)
(***************************************************************************)
FILE == FALSE
DIR == TRUE

\* the characters of a file name; "/" separates the components of a path
NameChars == <<"a", "b">>

CharCode(c) == CHOOSE k \in 1 .. Len(NameChars) : NameChars[k] = c

\* the name field of an entry: the first FileNameMaxLen characters, packed
RECURSIVE EncodeName(_, _)
EncodeName(name, i) ==
  IF i > Len(name) \/ i > FileNameMaxLen THEN 0
  ELSE CharCode(name[i]) * Pow(Len(NameChars) + 1, i - 1) + EncodeName(name, i + 1)

\* new Directory(NumDirEntries): the table is zeroed, no entry in use
NewDirectory ==
  [i \in 1 .. NumDirEntries |->
     [isDir |-> FALSE, inUse |-> FALSE, sector |-> 0, name |-> 0]]

Bool(b) == IF b THEN 1 ELSE 0

DirImage(table) ==
  [k \in 1 .. (NumDirEntries * DirEntrySize) |->
     LET e == table[((k - 1) \div DirEntrySize) + 1]
         f == (k - 1) % DirEntrySize
     IN IF f = 0 THEN Bool(e.isDir)
        ELSE IF f = 1 THEN Bool(e.inUse)
        ELSE IF f = 2 THEN e.sector
        ELSE e.name]

\* entries beyond the bytes read keep the constructor's zeroes
ImageDir(data) ==
  [i \in 1 .. NumDirEntries |->
     LET cell(f) == IF (i - 1) * DirEntrySize + f <= Len(data)
                    THEN data[(i - 1) * DirEntrySize + f] ELSE 0
     IN [isDir |-> cell(1) # 0, inUse |-> cell(2) # 0,
         sector |-> cell(3), name |-> cell(4)]]

\* Directory::FetchFrom(file)
DirFetchFrom(d, file) ==
  With(ReadAt(d, file, NumDirEntries * DirEntrySize), LAMBDA r :
  [ok |-> r.ok, table |-> ImageDir(r.data)])

\* Directory::WriteBack(file)
DirWriteBack(m, file, table) == WriteAt(m, file, DirImage(table), "dir")

\* Directory::FindIndex: the first matching slot, or -1
DirFindIndex(table, name, isDir) ==
  LET hits == {i \in 1 .. NumDirEntries :
                 /\ table[i].inUse
                 /\ table[i].name = EncodeName(name, 1)
                 /\ table[i].isDir = isDir}
  IN IF hits = {} THEN -1 ELSE CHOOSE i \in hits : \A j \in hits : i <= j

\* Directory::Find
DirFind(table, name, isDir) ==
  With(DirFindIndex(table, name, isDir), LAMBDA i :
  IF i = -1 THEN INVALID_SECTOR ELSE table[i].sector)

\* Directory::Add: the first slot not in use; FALSE when there is none
DirAdd(table, name, newSector, isDir) ==
  LET free == {i \in 1 .. NumDirEntries : ~table[i].inUse}
  IN IF free = {} THEN [ret |-> FALSE, table |-> table]
     ELSE LET i == CHOOSE k \in free : \A j \in free : k <= j
          IN [ret |-> TRUE,
              table |-> [table EXCEPT ![i] =
                           [isDir |-> isDir, inUse |-> TRUE, sector |-> newSector,
                            name |-> EncodeName(name, 1)]]]

\* Directory::Remove
DirRemove(table, name, isDir) ==
  With(DirFindIndex(table, name, isDir), LAMBDA i :
  IF i = -1 THEN [ret |-> FALSE, table |-> table]
  ELSE [ret |-> TRUE, table |-> [table EXCEPT ![i].inUse = FALSE]])

RECURSIVE RemoveAll(_, _, _, _)
RECURSIVE RemoveAllFrom(_, _, _, _, _)

\* one entry of RemoveAll: a directory's content first, then the entry's
\* data sectors and its header sector, then the entry itself
RemoveAllFrom(d, table, fm, i, depth) ==
  IF i > NumDirEntries THEN [ok |-> TRUE, fm |-> fm, table |-> table]
  ELSE IF ~table[i].inUse THEN RemoveAllFrom(d, table, fm, i + 1, depth)
  ELSE With(table[i], LAMBDA e :
       With(FetchFrom(d, e.sector, 0), LAMBDA h :
       With(IF ~e.isDir \/ ~h.ok THEN [ok |-> TRUE, fm |-> fm, table |-> table]
            ELSE With(DirFetchFrom(d, h.hdr), LAMBDA t :
                 IF ~t.ok THEN [ok |-> FALSE, fm |-> fm, table |-> table]
                 ELSE RemoveAll(d, t.table, fm, depth + 1)), LAMBDA sub :
       With(Deallocate(sub.fm, h.hdr), LAMBDA dl :
       IF ~h.ok \/ ~sub.ok \/ ~dl.ok
       THEN [ok |-> FALSE, fm |-> fm, table |-> table]
       ELSE RemoveAllFrom(d, [table EXCEPT ![i].inUse = FALSE],
                          dl.fm \ {e.sector}, i + 1, depth)))))

\* Directory::RemoveAll(freeMap)
RemoveAll(d, table, fm, depth) ==
  IF depth > NumSectors THEN [ok |-> FALSE, fm |-> fm, table |-> table]
  ELSE RemoveAllFrom(d, table, fm, 1, depth)

(***************************************************************************)
(* FileFinder.  A path is a sequence of characters.                        *)
(***************************************************************************)
\* FileFinder::splitPath: the tokens between the '/' characters
RECURSIVE splitPath(_, _, _, _)
splitPath(str, i, token, result) ==
  IF i > Len(str) THEN Append(result, token)
  ELSE IF str[i] = "/" THEN splitPath(str, i + 1, <<>>, Append(result, token))
  ELSE splitPath(str, i + 1, Append(token, str[i]), result)

exceedPathLenLimit(str) == Len(str) >= PATH_NAME_MAX_LEN

\* a finder after the constructor
NewFinder(filename) ==
  [ok |-> TRUE, exist |-> FALSE, pFhSector |-> INVALID_SECTOR,
   fhSector |-> INVALID_SECTOR, filename |-> filename]

\* a find loop that matches every component, not only the last, against the
\* requested type
RECURSIVE findLoopMutTypeEverywhere(_, _, _, _, _, _)
findLoopMutTypeEverywhere(d, openPfh, path, i, isDir, fnd) ==
  IF i > Len(path) THEN [fnd EXCEPT !.exist = TRUE]
  ELSE With(DirFetchFrom(d, openPfh), LAMBDA pDir :
       With(IF i = 2 THEN DirectorySector ELSE fnd.fhSector, LAMBDA pFh :
       With(DirFind(pDir.table, path[i], isDir), LAMBDA fh :
       With([fnd EXCEPT !.pFhSector = pFh, !.fhSector = fh], LAMBDA f1 :
       IF ~pDir.ok THEN [fnd EXCEPT !.ok = FALSE]
       ELSE IF fh = INVALID_SECTOR THEN f1
       ELSE With(OpenFile(d, fh), LAMBDA next :
            IF ~next.ok THEN [f1 EXCEPT !.ok = FALSE]
            ELSE findLoopMutTypeEverywhere(d, next.hdr, path, i + 1, isDir,
                                           f1))))))

\* the for loop of find, from component i (path[1] is the token before the
\* leading '/'); openPfh is the header of the directory being searched
RECURSIVE findLoop(_, _, _, _, _, _)
findLoop(d, openPfh, path, i, isDir, fnd) ==
  IF i > Len(path) THEN [fnd EXCEPT !.exist = TRUE]
  ELSE With(DirFetchFrom(d, openPfh), LAMBDA pDir :
       With(IF i = 2 THEN DirectorySector ELSE fnd.fhSector, LAMBDA pFh :
       With(DirFind(pDir.table, path[i], IF i = Len(path) THEN isDir ELSE DIR),
            LAMBDA fh :
       With([fnd EXCEPT !.pFhSector = pFh, !.fhSector = fh], LAMBDA f1 :
       IF ~pDir.ok THEN [fnd EXCEPT !.ok = FALSE]
       ELSE IF fh = INVALID_SECTOR THEN f1
       ELSE With(OpenFile(d, fh), LAMBDA next :
            IF ~next.ok THEN [f1 EXCEPT !.ok = FALSE]
            ELSE findLoop(d, next.hdr, path, i + 1, isDir, f1))))))

\* FileFinder::find on a fresh finder; ok = FALSE: ASSERT(isDir) failed
find(d, root, name, isDir) ==
  With(splitPath(name, 1, <<>>, <<>>), LAMBDA path :
  With(NewFinder(path[Len(path)]), LAMBDA f0 :
  IF exceedPathLenLimit(name) THEN f0
  ELSE IF name = <<"/">>
  THEN IF ~isDir THEN [f0 EXCEPT !.ok = FALSE]
       ELSE [f0 EXCEPT !.exist = TRUE, !.fhSector = DirectorySector]
  ELSE findLoop(d, root, path, 2, isDir, f0)))

(***************************************************************************)
(* FileSystem.  A call's result r: the machine (disk and write log) and    *)
(* ret, one of "TRUE", "FALSE", "ABORT" (an ASSERT failed inside the call).*)
(***************************************************************************)
Result(m, ret) == [m |-> m, ret |-> IF m.ok THEN ret ELSE "ABORT"]

\* FileSystem::FileSystem(format = TRUE) on a zeroed disk
Format ==
  With({FreeMapSector, DirectorySector}, LAMBDA fm0 :
  With(Allocate(fm0, FreeMapFileSize), LAMBDA mapHdr :
  With(Allocate(mapHdr.fm, DirectoryFileSize), LAMBDA dirHdr :
  With(Machine([s \in Sectors |-> ZeroSector]), LAMBDA m0 :
  With(WriteBack(m0, mapHdr.hdr, FreeMapSector), LAMBDA m1 :
  With(WriteBack(m1, dirHdr.hdr, DirectorySector), LAMBDA m2 :
  With(OpenFile(m2.disk, FreeMapSector), LAMBDA fmf :
  With(OpenFile(m2.disk, DirectorySector), LAMBDA drf :
  With(FreeMapWriteBack(m2, fmf.hdr, dirHdr.fm), LAMBDA m3 :
  With(DirWriteBack(m3, drf.hdr, NewDirectory), LAMBDA m4 :
  [disk |-> m4.disk, freeMapFile |-> fmf.hdr, directoryFile |-> drf.hdr,
   ok |-> mapHdr.ok /\ mapHdr.ret /\ dirHdr.ok /\ dirHdr.ret /\ m4.ok
          /\ fmf.ok /\ drf.ok]))))))))))

\* step 4 of createFileOrDir: header, parent directory, bitmap, and for a
\* directory the empty table
createWriteBack(m, fh, sector, openPfh, pDir, fm, isDir) ==
  With(FreeMapWriteBack(DirWriteBack(WriteBack(m, fh, sector), openPfh, pDir),
                        freeMapFile, fm), LAMBDA m3 :
  IF ~isDir \/ ~m3.ok THEN m3
  ELSE With(OpenFile(m3.disk, sector), LAMBDA openFh :
       IF ~openFh.ok THEN Abort(m3)
       ELSE DirWriteBack(m3, openFh.hdr, NewDirectory)))

\* FileSystem::createFileOrDir
createFileOrDir(d, name, isDir, initialSize) ==
  With(Machine(d), LAMBDA m0 :
  With(find(d, directoryFile, name, isDir), LAMBDA finder :
  IF ~finder.ok THEN Result(Abort(m0), "ABORT")
  ELSE IF finder.exist THEN Result(m0, "FALSE")
  ELSE IF finder.pFhSector = INVALID_SECTOR THEN Result(Abort(m0), "ABORT")
  ELSE
  With(LoadFreeMap(d, freeMapFile), LAMBDA freeMap :
  With(FindClear(freeMap.fm), LAMBDA sector :
  IF ~freeMap.ok \/ sector < 0 THEN Result(Abort(m0), "ABORT")
  ELSE
  With(OpenFile(d, finder.pFhSector), LAMBDA openPfh :
  With(DirFetchFrom(d, openPfh.hdr), LAMBDA pDir :
  With(DirAdd(pDir.table, finder.filename, sector, isDir), LAMBDA added :
  IF ~openPfh.ok \/ ~pDir.ok \/ ~added.ret THEN Result(Abort(m0), "ABORT")
  ELSE
  With(IF isDir THEN NumDirEntries * DirEntrySize ELSE initialSize, LAMBDA size :
  With(Allocate(freeMap.fm \cup {sector}, size), LAMBDA fh :
  IF size < 0 \/ ~fh.ok \/ ~fh.ret THEN Result(Abort(m0), "ABORT")
  ELSE Result(createWriteBack(m0, fh.hdr, sector, openPfh.hdr, added.table,
                              fh.fm, isDir), "TRUE"))))))))))

\* FileSystem::Create
FsCreate(d, name, initialSize) == createFileOrDir(d, name, FILE, initialSize)

\* FileSystem::Mkdir
FsMkdir(d, name) == createFileOrDir(d, name, DIR, -1)

\* FileSystem::returnSectorsToFreeMap
returnSectorsToFreeMap(d, fhSector, fm) ==
  With(FetchFrom(d, fhSector, 0), LAMBDA fh :
  IF ~TestInRange(fhSector) \/ fhSector \notin fm \/ ~fh.ok
  THEN [ok |-> FALSE, fm |-> fm]
  ELSE Deallocate(fm \ {fhSector}, fh.hdr))

\* a Remove that writes the bitmap back before it fails on a missing name
removeFileMutWriteBackOnMiss(d, name) ==
  With(Machine(d), LAMBDA m0 :
  With(find(d, directoryFile, name, FILE), LAMBDA finder :
  With(LoadFreeMap(d, freeMapFile), LAMBDA freeMap :
  IF ~finder.ok \/ ~freeMap.ok THEN Result(Abort(m0), "ABORT")
  ELSE IF ~finder.exist
  THEN Result(FreeMapWriteBack(m0, freeMapFile, freeMap.fm), "FALSE")
  ELSE
  With(returnSectorsToFreeMap(d, finder.fhSector, freeMap.fm), LAMBDA ret :
  With(OpenFile(d, finder.pFhSector), LAMBDA openPfh :
  With(DirFetchFrom(d, openPfh.hdr), LAMBDA pDir :
  With(DirRemove(pDir.table, finder.filename, FILE), LAMBDA removed :
  IF ~ret.ok \/ ~openPfh.ok \/ ~pDir.ok \/ ~removed.ret
  THEN Result(Abort(m0), "ABORT")
  ELSE Result(DirWriteBack(FreeMapWriteBack(m0, freeMapFile, ret.fm),
                           openPfh.hdr, removed.table), "TRUE"))))))))

\* FileSystem::Remove with recursive = FALSE
removeFile(d, name) ==
  With(Machine(d), LAMBDA m0 :
  With(find(d, directoryFile, name, FILE), LAMBDA finder :
  IF ~finder.ok THEN Result(Abort(m0), "ABORT")
  ELSE IF ~finder.exist THEN Result(m0, "FALSE")
  ELSE
  With(LoadFreeMap(d, freeMapFile), LAMBDA freeMap :
  With(returnSectorsToFreeMap(d, finder.fhSector, freeMap.fm), LAMBDA ret :
  IF ~freeMap.ok \/ ~ret.ok THEN Result(Abort(m0), "ABORT")
  ELSE
  With(OpenFile(d, finder.pFhSector), LAMBDA openPfh :
  With(DirFetchFrom(d, openPfh.hdr), LAMBDA pDir :
  With(DirRemove(pDir.table, finder.filename, FILE), LAMBDA removed :
  IF ~openPfh.ok \/ ~pDir.ok \/ ~removed.ret THEN Result(Abort(m0), "ABORT")
  ELSE Result(DirWriteBack(FreeMapWriteBack(m0, freeMapFile, ret.fm),
                           openPfh.hdr, removed.table), "TRUE"))))))))

\* a recursive Remove that also releases the header sector of the directory
\* it was given
recursivelyRemoveMutFreeSelf(d, name) ==
  With(Machine(d), LAMBDA m0 :
  With(find(d, directoryFile, name, DIR), LAMBDA finder :
  IF ~finder.ok THEN Result(Abort(m0), "ABORT")
  ELSE IF ~finder.exist THEN removeFile(d, name)
  ELSE
  With(LoadFreeMap(d, freeMapFile), LAMBDA freeMap :
  With(OpenFile(d, finder.fhSector), LAMBDA openfh :
  With(DirFetchFrom(d, openfh.hdr), LAMBDA dir :
  With(RemoveAll(d, dir.table, freeMap.fm, 0), LAMBDA all :
  IF ~freeMap.ok \/ ~openfh.ok \/ ~dir.ok \/ ~all.ok
  THEN Result(Abort(m0), "ABORT")
  ELSE Result(FreeMapWriteBack(DirWriteBack(m0, openfh.hdr, all.table),
                               freeMapFile, all.fm \ {finder.fhSector}),
              "TRUE")))))))

\* FileSystem::recursivelyRemove
recursivelyRemove(d, name) ==
  With(Machine(d), LAMBDA m0 :
  With(find(d, directoryFile, name, DIR), LAMBDA finder :
  IF ~finder.ok THEN Result(Abort(m0), "ABORT")
  ELSE IF ~finder.exist THEN removeFile(d, name)
  ELSE
  With(LoadFreeMap(d, freeMapFile), LAMBDA freeMap :
  With(OpenFile(d, finder.fhSector), LAMBDA openfh :
  With(DirFetchFrom(d, openfh.hdr), LAMBDA dir :
  With(RemoveAll(d, dir.table, freeMap.fm, 0), LAMBDA all :
  IF ~freeMap.ok \/ ~openfh.ok \/ ~dir.ok \/ ~all.ok
  THEN Result(Abort(m0), "ABORT")
  ELSE Result(FreeMapWriteBack(DirWriteBack(m0, openfh.hdr, all.table),
                               freeMapFile, all.fm), "TRUE")))))))

\* FileSystem::Remove
FsRemove(d, name, recursive) ==
  IF recursive THEN recursivelyRemove(d, name) ELSE removeFile(d, name)

(***************************************************************************)
(* OpenFile with a seek position, and the descriptor table.  A handle is   *)
(* the fetched header and seekPosition; a free slot of the table holds     *)
(* NullFile.  A buffer is a sequence of bytes, or NullBuffer.              *)
(***************************************************************************)
NullFile == [open |-> FALSE, hdr |-> NewFileHeader, seekPosition |-> 0]

NullBuffer == [null |-> TRUE, bytes |-> <<>>]

Buffer(bytes) == [null |-> FALSE, bytes |-> bytes]

\* the number of bytes ReadAt / WriteAt transfer at a position
ClampAt(hdr, numBytes, position) ==
  IF numBytes <= 0 \/ position >= FileLength(hdr) THEN 0
  ELSE Min(numBytes, FileLength(hdr) - position)

\* the sectors holding bytes position .. position + n - 1 all exist
SectorsOkAt(hdr, n, position) ==
  \A b \in position .. (position + n - 1) : ByteToSector(hdr, b) \in Sectors

\* OpenFile::ReadAt(into, numBytes, position)
ReadAtFrom(d, hdr, numBytes, position) ==
  With(ClampAt(hdr, numBytes, position), LAMBDA n :
  IF ~SectorsOkAt(hdr, n, position) THEN [ok |-> FALSE, data |-> <<>>]
  ELSE [ok |-> TRUE,
        data |-> [b \in 1 .. n |->
                    d[ByteToSector(hdr, position + b - 1)]
                     [((position + b - 1) % SectorSize) + 1]]])

\* the sectors firstSector .. lastSector of WriteAt, written first to last:
\* the bytes outside position .. position + n - 1 keep what the sector held
RECURSIVE WriteSectorsFrom(_, _, _, _, _, _, _)
WriteSectorsFrom(m, hdr, data, n, position, i, kind) ==
  IF ~m.ok \/ n <= 0 \/ i * SectorSize >= position + n THEN m
  ELSE With(ByteToSector(hdr, i * SectorSize), LAMBDA s :
       IF s \notin Sectors THEN Abort(m)
       ELSE WriteSectorsFrom(
              WriteSector(m, s,
                          [j \in 1 .. SectorSize |->
                             With(i * SectorSize + j - 1, LAMBDA b :
                             IF b >= position /\ b < position + n
                             THEN data[b - position + 1]
                             ELSE m.disk[s][j])],
                          kind),
              hdr, data, n, position, i + 1, kind))

\* OpenFile::WriteAt(from, numBytes, position): the machine and the count
WriteAtFrom(m, hdr, data, numBytes, position, kind) ==
  With(ClampAt(hdr, numBytes, position), LAMBDA n :
  [m |-> WriteSectorsFrom(m, hdr, data, n, position, position \div SectorSize,
                          kind),
   n |-> n])

\* an Open that looks the name up as a directory first
FsOpenMutDirFirst(d, name) ==
  With(find(d, directoryFile, name, DIR), LAMBDA asDir :
  With(IF asDir.exist THEN asDir ELSE find(d, directoryFile, name, FILE),
       LAMBDA finder :
  IF ~finder.ok \/ ~finder.exist \/ finder.fhSector < 0
  THEN [ok |-> FALSE, file |-> NullFile]
  ELSE With(OpenFile(d, finder.fhSector), LAMBDA h :
       [ok |-> h.ok,
        file |-> [open |-> TRUE, hdr |-> h.hdr, seekPosition |-> 0]])))

\* FileSystem::Open: the handle, or ok = FALSE when an ASSERT failed
FsOpen(d, name) ==
  With(find(d, directoryFile, name, FILE), LAMBDA asFile :
  IF ~asFile.ok THEN [ok |-> FALSE, file |-> NullFile]
  ELSE
  With(IF asFile.exist THEN asFile ELSE find(d, directoryFile, name, DIR),
       LAMBDA finder :
  IF ~finder.ok \/ ~finder.exist \/ finder.fhSector < 0
  THEN [ok |-> FALSE, file |-> NullFile]
  ELSE With(OpenFile(d, finder.fhSector), LAMBDA h :
       [ok |-> h.ok,
        file |-> [open |-> TRUE, hdr |-> h.hdr, seekPosition |-> 0]])))

\* the ids of the table
FileIds == 0 .. (FILE_OPEN_LIMIT - 1)

\* the first free slot of the table, or FILE_OPEN_LIMIT
FirstFree(table) ==
  IF \A id \in FileIds : table[id].open THEN FILE_OPEN_LIMIT
  ELSE CHOOSE id \in FileIds :
         ~table[id].open /\ \A k \in FileIds : ~table[k].open => id <= k

\* FileSystem::OpenAFile.  A result: ok (no ASSERT failed), the value
\* returned, the table and the machine afterwards.
FsOpenAFile(table, d, name) ==
  With(FirstFree(table), LAMBDA id :
  IF id = FILE_OPEN_LIMIT
  THEN [ok |-> TRUE, ret |-> -1, m |-> Machine(d), out |-> <<>>,
        table |-> table]
  ELSE With(FsOpen(d, name), LAMBDA f :
       IF ~f.ok
       THEN [ok |-> FALSE, ret |-> -1, m |-> Abort(Machine(d)), out |-> <<>>,
             table |-> table]
       ELSE [ok |-> TRUE, ret |-> id, m |-> Machine(d), out |-> <<>>,
             table |-> [table EXCEPT ![id] = f.file]]))

\* SysOpen
SysOpen(table, d, name) == FsOpenAFile(table, d, name)

\* isValidFileId without the test that the slot is not NULL
isValidFileIdMutAnySlot(table, id) ==
  id >= 0 /\ id < FILE_OPEN_LIMIT

\* FileSystem::isValidFileId
isValidFileId(table, id) ==
  id >= 0 /\ id < FILE_OPEN_LIMIT /\ table[id].open

\* FileSystem::WriteFile_ with OpenFile::Write
FsWriteFile(table, d, buffer, size, id) ==
  IF ~buffer.null /\ size >= 0 /\ isValidFileId(table, id)
  THEN With(WriteAtFrom(Machine(d), table[id].hdr, buffer.bytes, size,
                        table[id].seekPosition, "data"), LAMBDA w :
       [ok |-> w.m.ok, ret |-> w.n, m |-> w.m, out |-> <<>>,
        table |-> IF w.m.ok
                  THEN [table EXCEPT ![id].seekPosition = @ + w.n]
                  ELSE table])
  ELSE [ok |-> TRUE, ret |-> -1, m |-> Machine(d), out |-> <<>>,
        table |-> table]

\* FileSystem::ReadFile with OpenFile::Read
FsReadFile(table, d, buffer, size, id) ==
  IF ~buffer.null /\ size >= 0 /\ isValidFileId(table, id)
  THEN With(ReadAtFrom(d, table[id].hdr, size, table[id].seekPosition),
            LAMBDA r :
       [ok |-> r.ok, ret |-> Len(r.data), out |-> r.data,
        m |-> IF r.ok THEN Machine(d) ELSE Abort(Machine(d)),
        table |-> IF r.ok
                  THEN [table EXCEPT ![id].seekPosition = @ + Len(r.data)]
                  ELSE table])
  ELSE [ok |-> TRUE, ret |-> -1, m |-> Machine(d), out |-> <<>>,
        table |-> table]

\* FileSystem::CloseFile
FsCloseFile(table, d, id) ==
  IF isValidFileId(table, id)
  THEN [ok |-> TRUE, ret |-> 1, m |-> Machine(d), out |-> <<>>,
        table |-> [table EXCEPT ![id] = NullFile]]
  ELSE [ok |-> TRUE, ret |-> -1, m |-> Machine(d), out |-> <<>>,
        table |-> table]

(***************************************************************************)
(* What an observer reads off the disk.                                    *)
(***************************************************************************)
\* the free bitmap as stored in the free-map file
DiskFreeMap(d) == LoadFreeMap(d, freeMapFile).fm

\* the in-use entries of the directory whose header is in sector s
InUseEntries(d, s) ==
  With(OpenFile(d, s), LAMBDA h :
  IF ~h.ok THEN {}
  ELSE With(DirFetchFrom(d, h.hdr).table, LAMBDA t :
       {[name |-> t[i].name, isDir |-> t[i].isDir, sector |-> t[i].sector] :
          i \in {j \in 1 .. NumDirEntries : t[j].inUse}}))

\* p without its last component ("/" for a path of one component)
RECURSIVE DropLast(_)
DropLast(p) ==
  IF Len(p) <= 1 THEN <<"/">>
  ELSE IF p[Len(p)] = "/" THEN (IF Len(p) = 1 THEN p ELSE SubSeq(p, 1, Len(p) - 1))
  ELSE DropLast(SubSeq(p, 1, Len(p) - 1))

LastName(p) == With(splitPath(p, 1, <<>>, <<>>), LAMBDA s : s[Len(s)])

\* the header sector p resolves to as a directory / as a file, or -1
ResolveDir(d, p) ==
  With(find(d, directoryFile, p, DIR), LAMBDA f :
  IF f.ok /\ f.exist THEN f.fhSector ELSE INVALID_SECTOR)

ResolveFile(d, p) ==
  IF p = <<"/">> THEN INVALID_SECTOR
  ELSE With(find(d, directoryFile, p, FILE), LAMBDA f :
       IF f.ok /\ f.exist THEN f.fhSector ELSE INVALID_SECTOR)

\* the sectors a fetched header refers to: child headers and data sectors
RECURSIVE HeaderSectors(_)
HeaderSectors(hdr) ==
  IF whichLv(hdr.numBytes) <= 0
  THEN {hdr.dataSectors[i] : i \in 1 .. Min(hdr.numDataSectors, NUM_DIRECT)}
  ELSE UNION {{hdr.dataSectors[i]} \cup HeaderSectors(hdr.children[i]) :
                i \in 1 .. Min(NumChildren(hdr.dataSectors, 1), Len(hdr.children))}

\* the header sector in s together with everything that header refers to
FileSectors(d, s) == {s} \cup HeaderSectors(FetchFrom(d, s, 0).hdr)

\* every sector of the tree under the directory whose header is in s
RECURSIVE DirTreeSectors(_, _, _)
DirTreeSectors(d, s, depth) ==
  IF depth > NumSectors THEN {}
  ELSE FileSectors(d, s) \cup
       UNION {IF e.isDir THEN DirTreeSectors(d, e.sector, depth + 1)
              ELSE FileSectors(d, e.sector) : e \in InUseEntries(d, s)}

\* the sectors reachable from the two reserved headers
Reachable(d) ==
  (FileSectors(d, FreeMapSector) \cup DirTreeSectors(d, DirectorySector, 0))
    \cap Sectors

\* the header sectors of the regular files in the tree under directory s
RECURSIVE FilesUnder(_, _, _)
FilesUnder(d, s, depth) ==
  IF depth > NumSectors THEN {}
  ELSE UNION {IF e.isDir THEN FilesUnder(d, e.sector, depth + 1)
              ELSE {e.sector} : e \in InUseEntries(d, s)}

\* the child headers of the tree Allocate builds for n bytes
RECURSIVE ChildHeaders(_)
ChildHeaders(n) ==
  LET lv == whichLv(n)
      c == MAX_SIZE(lv - 1)
  IN IF lv <= 0 THEN 0
     ELSE (n \div c) * (1 + ChildHeaders(c))
          + (IF n % c > 0 THEN 1 + ChildHeaders(n % c) ELSE 0)

\* the sectors a file of n bytes takes: header, child headers, data
SectorsNeeded(n) == 1 + ChildHeaders(n) + divRoundUp(n, SectorSize)

\* q lies strictly beneath the directory path p
Beneath(q, p) ==
  /\ Len(q) > Len(p) + 1
  /\ SubSeq(q, 1, Len(p)) = p
  /\ q[Len(p) + 1] = "/"

(***************************************************************************)
(* The state machine: the formatted disk, then up to MaxOps facade calls.  *)
(* last records the latest call: its arguments, what it returned, the      *)
(* sectors it wrote, what the path resolved to before the call (pre), and  *)
(* clean: every call so far returned TRUE.  snap is the bitmap and the     *)
(* parent's entries as they were before the latest Create / Mkdir.         *)
(***************************************************************************)
Names == {NameChars[k] : k \in 1 .. Len(NameChars)}

RECURSIVE PathsOfDepth(_)
PathsOfDepth(k) ==
  IF k = 0 THEN {<<>>}
  ELSE {p \o <<"/", c>> : p \in PathsOfDepth(k - 1), c \in Names}

\* the paths the calls are made with: well-formed ones, the root, and one
\* without the leading '/'
Paths ==
  UNION {PathsOfDepth(k) : k \in 1 .. MaxDepth} \cup {<<"/">>, <<"a">>}

\* the sizes Create is called with: empty, one of level 2, one of level 3
Sizes == {0, MAX_SIZE(1) + 1, MAX_SIZE(2) + 1}

NoSnap ==
  [valid |-> FALSE, op |-> "none", path |-> <<>>, at |-> 0, freeMap |-> {},
   parent |-> INVALID_SECTOR, entries |-> {}]

\* the snapshot taken before a successful Create / Mkdir of p
TakeSnap(op, p) ==
  With(ResolveDir(disk, DropLast(p)), LAMBDA parent :
  [valid |-> TRUE, op |-> op, path |-> p, at |-> nops + 1,
   freeMap |-> DiskFreeMap(disk),
   parent |-> parent,
   entries |-> InUseEntries(disk, parent)])

\* the snapshot of a Mkdir survives the calls made beneath that directory
KeepSnap(p) ==
  snap.valid /\ snap.op = "Mkdir" /\ Beneath(p, snap.path) /\ last.op # "Remove"

SnapAfterCreate(op, p, ret) ==
  IF KeepSnap(p) THEN snap
  ELSE IF ret = "TRUE" THEN TakeSnap(op, p)
  ELSE NoSnap

\* a snapshot is judged by the first Remove of its path
SnapAfterRemove(p) ==
  IF snap.valid /\ snap.path = p /\ last.op # "Remove" THEN snap ELSE NoSnap

\* what p resolves to before a call, and the clear bits of the bitmap
Pre(p) ==
  [dir |-> ResolveDir(disk, p), file |-> ResolveFile(disk, p),
   parent |-> ResolveDir(disk, DropLast(p)),
   clear |-> NumClear(DiskFreeMap(disk))]

Called(op, p, n, rec, r) ==
  [op |-> op, path |-> p, size |-> n, rec |-> rec, ret |-> r.ret,
   log |-> r.m.log, clean |-> last.clean /\ r.ret = "TRUE", pre |-> Pre(p)]

Running == nops < MaxOps /\ last.ret # "ABORT"

\* no call on the descriptor table yet
NoIo ==
  [op |-> "none", path |-> <<>>, id |-> -1, size |-> 0, buffer |-> NullBuffer,
   ret |-> 0, out |-> <<>>, abort |-> FALSE, log |-> <<>>, n |-> 0,
   before |-> [id \in FileIds |-> NullFile], diskBefore |-> <<>>]

\* the header machine at rest
NoHd == [pc |-> "idle"]

Init ==
  /\ \E fs \in {Format} :
       /\ fs.ok
       /\ disk = fs.disk
       /\ freeMapFile = fs.freeMapFile
       /\ directoryFile = fs.directoryFile
  /\ last = [op |-> "Format", path |-> <<>>, size |-> 0, rec |-> FALSE,
             ret |-> "TRUE", log |-> <<>>, clean |-> TRUE,
             pre |-> [dir |-> INVALID_SECTOR, file |-> INVALID_SECTOR,
                      parent |-> INVALID_SECTOR, clear |-> NumSectors]]
  /\ snap = NoSnap
  /\ nops = 0
  /\ OpenFileTable = [id \in FileIds |-> NullFile]
  /\ io = NoIo
  /\ hd = NoHd

Create(p, n) ==
  /\ Running
  /\ \E r \in {FsCreate(disk, p, n)} :
        /\ disk' = r.m.disk
        /\ last' = Called("Create", p, n, FALSE, r)
        /\ snap' = SnapAfterCreate("Create", p, r.ret)
  /\ nops' = nops + 1
  /\ UNCHANGED <<freeMapFile, directoryFile, OpenFileTable, io, hd>>

Mkdir(p) ==
  /\ Running
  /\ \E r \in {FsMkdir(disk, p)} :
        /\ disk' = r.m.disk
        /\ last' = Called("Mkdir", p, 0, FALSE, r)
        /\ snap' = SnapAfterCreate("Mkdir", p, r.ret)
  /\ nops' = nops + 1
  /\ UNCHANGED <<freeMapFile, directoryFile, OpenFileTable, io, hd>>

Remove(p, recursive) ==
  /\ Running
  /\ \E r \in {FsRemove(disk, p, recursive)} :
        /\ disk' = r.m.disk
        /\ last' = Called("Remove", p, 0, recursive, r)
        /\ snap' = SnapAfterRemove(p)
  /\ nops' = nops + 1
  /\ UNCHANGED <<freeMapFile, directoryFile, OpenFileTable, io, hd>>

Next ==
  \/ \E p \in Paths, n \in Sizes : Create(p, n)
  \/ \E p \in Paths : Mkdir(p)
  \/ \E p \in Paths, r \in BOOLEAN : Remove(p, r)

Spec == Init /\ [][Next]_vars

(***************************************************************************)
(* The same calls with paths at the length limit: a path of                *)
(* PATH_NAME_MAX_LEN - 1 characters and one of PATH_NAME_MAX_LEN, in the   *)
(* root and in the directory /a.                                           *)
(***************************************************************************)
\* '/' followed by k - 1 characters 'a': a path of k characters
PathOfLen(k) == <<"/">> \o [i \in 1 .. (k - 1) |-> "a"]

LongPaths ==
  {<<"/", "a">>,
   PathOfLen(PATH_NAME_MAX_LEN - 1), PathOfLen(PATH_NAME_MAX_LEN),
   <<"/", "a">> \o PathOfLen(PATH_NAME_MAX_LEN - 3),
   <<"/", "a">> \o PathOfLen(PATH_NAME_MAX_LEN - 2)}

NextLong ==
  \/ \E p \in LongPaths, n \in Sizes : Create(p, n)
  \/ \E p \in LongPaths : Mkdir(p)
  \/ \E p \in LongPaths, r \in BOOLEAN : Remove(p, r)

SpecLong == Init /\ [][NextLong]_vars

(***************************************************************************)
(* The descriptor table: up to MaxCreates Create calls on the formatted    *)
(* disk, then up to MaxTableOps calls of OpenAFile, WriteFile_, ReadFile   *)
(* and CloseFile.  io records the latest of these calls: its arguments,    *)
(* the value returned, the bytes read, the sectors written, whether an     *)
(* ASSERT failed, and the table and the disk as they were before it.       *)
(***************************************************************************)
TablePaths == {<<"/", "a">>, <<"/", "b">>}

\* the paths handed to OpenAFile: the files and the root directory
OpenPaths == TablePaths \cup {<<"/">>}

\* a size of each level: 0, 2 and 3
TableSizes == {SectorSize + 2, MAX_SIZE(1) + 1, MAX_SIZE(2) + 1}

\* ids in the table, one below and one above
TableIds == -1 .. FILE_OPEN_LIMIT

\* the buffer handed to WriteFile_: MAX_SIZE(2) + 1 distinct bytes
Pattern == Buffer([b \in 1 .. (MAX_SIZE(2) + 1) |-> 100 + b])

\* (buffer, size) of a WriteFile_ / ReadFile call
Transfers ==
  {<<Pattern, 3>>, <<Pattern, MAX_SIZE(2) + 1>>, <<NullBuffer, 3>>,
   <<Pattern, -1>>}

TableRunning ==
  io.n < MaxTableOps /\ ~io.abort /\ last.ret # "ABORT"

TableCalled(op, p, id, buffer, size, r) ==
  [op |-> op, path |-> p, id |-> id, size |-> size, buffer |-> buffer,
   ret |-> r.ret, out |-> r.out, abort |-> ~r.ok, log |-> r.m.log,
   n |-> io.n + 1, before |-> OpenFileTable, diskBefore |-> disk]

TableCreate(p, n) ==
  /\ io.op = "none" /\ nops < MaxCreates /\ last.ret # "ABORT"
  /\ \E r \in {FsCreate(disk, p, n)} :
        /\ disk' = r.m.disk
        /\ last' = Called("Create", p, n, FALSE, r)
  /\ nops' = nops + 1
  /\ UNCHANGED <<freeMapFile, directoryFile, OpenFileTable, snap, io, hd>>

OpenAFile(p) ==
  /\ TableRunning
  /\ \E r \in {SysOpen(OpenFileTable, disk, p)} :
        /\ OpenFileTable' = r.table
        /\ io' = TableCalled("OpenAFile", p, -1, NullBuffer, 0, r)
  /\ UNCHANGED <<disk, freeMapFile, directoryFile, last, snap, nops, hd>>

WriteFile_(buffer, size, id) ==
  /\ TableRunning
  /\ \E r \in {FsWriteFile(OpenFileTable, disk, buffer, size, id)} :
        /\ OpenFileTable' = r.table
        /\ disk' = r.m.disk
        /\ io' = TableCalled("WriteFile_", <<>>, id, buffer, size, r)
  /\ UNCHANGED <<freeMapFile, directoryFile, last, snap, nops, hd>>

ReadFile(buffer, size, id) ==
  /\ TableRunning
  /\ \E r \in {FsReadFile(OpenFileTable, disk, buffer, size, id)} :
        /\ OpenFileTable' = r.table
        /\ io' = TableCalled("ReadFile", <<>>, id, buffer, size, r)
  /\ UNCHANGED <<disk, freeMapFile, directoryFile, last, snap, nops, hd>>

CloseFile(id) ==
  /\ TableRunning
  /\ \E r \in {FsCloseFile(OpenFileTable, disk, id)} :
        /\ OpenFileTable' = r.table
        /\ io' = TableCalled("CloseFile", <<>>, id, NullBuffer, 0, r)
  /\ UNCHANGED <<disk, freeMapFile, directoryFile, last, snap, nops, hd>>

NextTable ==
  \/ \E p \in TablePaths, n \in TableSizes : TableCreate(p, n)
  \/ \E p \in OpenPaths : OpenAFile(p)
  \/ \E t \in Transfers, id \in TableIds : WriteFile_(t[1], t[2], id)
  \/ \E t \in Transfers, id \in TableIds : ReadFile(t[1], t[2], id)
  \/ \E id \in TableIds : CloseFile(id)

SpecTable == Init /\ [][NextTable]_vars

(***************************************************************************)
(* Opening what Create and Mkdir made: files and directories under the     *)
(* root, a file and a directory of one name among them.                    *)
(***************************************************************************)
NextOpen ==
  \/ \E p \in TablePaths, n \in Sizes : Create(p, n)
  \/ \E p \in TablePaths : Mkdir(p)
  \/ \E p \in OpenPaths : OpenAFile(p)

SpecOpen == Init /\ [][NextOpen]_vars

(***************************************************************************)
(* Handles that outlive the file: Create, OpenAFile, Remove and WriteFile_ *)
(* in any order on two names.                                              *)
(***************************************************************************)
\* the size of the files: two sectors, the second one partly used
HandleSizes == {SectorSize + 2}

NextHandle ==
  \/ \E p \in TablePaths, n \in HandleSizes : Create(p, n)
  \/ \E p \in TablePaths : OpenAFile(p)
  \/ \E p \in TablePaths : Remove(p, FALSE)
  \/ \E id \in FileIds : WriteFile_(Pattern, SectorSize - 1, id)

SpecHandle == Init /\ [][NextHandle]_vars

(***************************************************************************)
(* One file header through its life, as createFileOrDir, OpenFile and      *)
(* Remove drive it: a header sector is taken from the bitmap, Allocate     *)
(* builds the tree, WriteBack stores it, FetchFrom reads it into a fresh   *)
(* header, WriteBack stores the fetched header, Deallocate frees it.  hd   *)
(* records the stage and what each step produced.                          *)
(***************************************************************************)
HdrSizes == 0 .. (MAX_SIZE(LEVEL_LIMIT - 1) + 1)

\* how many sectors earlier files hold
HdrTaken == 0 .. (NumSectors - 1)

\* the bitmap with its k lowest clear sectors taken, as earlier files would
RECURSIVE Taken(_, _)
Taken(fm, k) ==
  IF k <= 0 \/ FindClear(fm) = INVALID_SECTOR THEN fm
  ELSE Taken(fm \cup {FindClear(fm)}, k - 1)

\* freeMap->FindAndSet() for the header, then hdr->Allocate(freeMap, n)
DoAllocate(n, k) ==
  /\ hd.pc = "idle"
  /\ \E fm0 \in {Taken(DiskFreeMap(disk), k)} :
     \E sector \in {FindClear(fm0)} :
       /\ sector # INVALID_SECTOR
       /\ \E r \in {Allocate(fm0 \cup {sector}, n)} :
            hd' = [pc |-> IF ~r.ok THEN "aborted"
                          ELSE IF r.ret THEN "allocated" ELSE "refused",
                   n |-> n, sector |-> sector, clear |-> NumClear(fm0) - 1,
                   fm |-> r.fm, hdr |-> r.hdr, fetched |-> NewFileHeader,
                   log |-> <<>>, before |-> disk, freed |-> r.fm]
  /\ UNCHANGED <<disk, freeMapFile, directoryFile, OpenFileTable, last, snap,
                 nops, io>>

\* hdr->WriteBack(sector)
DoWriteBack ==
  /\ hd.pc = "allocated"
  /\ \E m \in {WriteBack(Machine(disk), hd.hdr, hd.sector)} :
       /\ disk' = m.disk
       /\ hd' = [hd EXCEPT !.pc = IF m.ok THEN "written" ELSE "aborted",
                           !.log = m.log, !.before = disk]
  /\ UNCHANGED <<freeMapFile, directoryFile, OpenFileTable, last, snap, nops,
                 io>>

\* a fresh header's FetchFrom(sector)
DoFetchFrom ==
  /\ hd.pc = "written"
  /\ \E f \in {FetchFrom(disk, hd.sector, 0)} :
       hd' = [hd EXCEPT !.pc = IF f.ok THEN "fetched" ELSE "aborted",
                        !.fetched = f.hdr]
  /\ UNCHANGED <<disk, freeMapFile, directoryFile, OpenFileTable, last, snap,
                 nops, io>>

\* the fetched header's WriteBack(sector)
DoWriteBackFetched ==
  /\ hd.pc = "fetched"
  /\ \E m \in {WriteBack(Machine(disk), hd.fetched, hd.sector)} :
       /\ disk' = m.disk
       /\ hd' = [hd EXCEPT !.pc = IF m.ok THEN "rewritten" ELSE "aborted",
                           !.log = m.log, !.before = disk]
  /\ UNCHANGED <<freeMapFile, directoryFile, OpenFileTable, last, snap, nops,
                 io>>

\* the fetched header's Deallocate(freeMap)
DoDeallocate ==
  /\ hd.pc = "rewritten"
  /\ \E r \in {Deallocate(hd.fm, hd.fetched)} :
       hd' = [hd EXCEPT !.pc = IF r.ok THEN "freed" ELSE "aborted",
                        !.freed = r.fm]
  /\ UNCHANGED <<disk, freeMapFile, directoryFile, OpenFileTable, last, snap,
                 nops, io>>

NextHdr ==
  \/ \E n \in HdrSizes, k \in HdrTaken : DoAllocate(n, k)
  \/ DoWriteBack
  \/ DoFetchFrom
  \/ DoWriteBackFetched
  \/ DoDeallocate

SpecHdr == Init /\ [][NextHdr]_vars

(***************************************************************************)
(* The linked-list file header: the header holds numBytes, numSectors,     *)
(* startSector and endSector; every data block keeps NUM_DATA integers and *)
(* the sector of the next block.                                           *)
(***************************************************************************)
DATA_SIZE == SectorSize - IntSize

NUM_DATA == DATA_SIZE \div IntSize

\* DataBlock(next)
DataBlock(next) == [data |-> [j \in 1 .. NUM_DATA |-> 0], next |-> next]

\* FileHeader::FileHeader of the linked-list header
NewListHeader ==
  [numBytes |-> -1, numSectors |-> -1, startSector |-> INVALID_SECTOR,
   endSector |-> INVALID_SECTOR, dataBlocks |-> <<>>]

\* the for loop of Allocate, from block i (0-based)
RECURSIVE ListAllocateFrom(_, _, _)
ListAllocateFrom(fm, hdr, i) ==
  IF i >= hdr.numSectors THEN [ok |-> TRUE, ret |-> TRUE, fm |-> fm, hdr |-> hdr]
  ELSE With(FindClear(fm), LAMBDA freeBlock :
       IF freeBlock = INVALID_SECTOR
       THEN [ok |-> FALSE, ret |-> FALSE, fm |-> fm, hdr |-> hdr]
       ELSE ListAllocateFrom(fm \cup {freeBlock},
              [hdr EXCEPT
                 !.startSector = IF i = 0 THEN freeBlock ELSE @,
                 !.dataBlocks =
                    Append(IF i = 0 THEN @
                           ELSE [@ EXCEPT ![Len(@)].next = freeBlock],
                           DataBlock(INVALID_SECTOR)),
                 !.endSector = freeBlock],
              i + 1))

\* FileHeader::Allocate of the linked-list header, on a fresh header
ListAllocate(fm, fileSize) ==
  With([NewListHeader EXCEPT
          !.numBytes = fileSize,
          !.numSectors = divRoundUp(fileSize, SectorSize)], LAMBDA h0 :
  IF NumClear(fm) < h0.numSectors
  THEN [ok |-> TRUE, ret |-> FALSE, fm |-> fm, hdr |-> h0]
  ELSE ListAllocateFrom(fm, h0, 0))

\* FileHeader::ByteToSector of the linked-list header; ok = FALSE: the
\* index is outside dataBlocks and the value read is not defined
ListByteToSector(hdr, offset) ==
  With((offset \div SectorSize) - 1, LAMBDA i :
  IF i = -1 THEN [ok |-> TRUE, sector |-> hdr.startSector]
  ELSE IF (i + 1) \in 1 .. Len(hdr.dataBlocks)
  THEN [ok |-> TRUE, sector |-> hdr.dataBlocks[i + 1].next]
  ELSE [ok |-> FALSE, sector |-> INVALID_SECTOR])

\* the sizes of the files: up to three sectors and one byte
ListSizes == 0 .. (3 * SectorSize + 1)

\* the offsets ByteToSector is asked for
ListOffsets == 0 .. (3 * SectorSize)

\* hdr->Allocate(freeMap, n) on a bitmap with k more sectors taken
DoListAllocate(n, k) ==
  /\ hd.pc = "idle"
  /\ \E fm0 \in {Taken(DiskFreeMap(disk), k)} :
     \E r \in {ListAllocate(fm0, n)} :
       hd' = [pc |-> IF ~r.ok THEN "listAborted"
                     ELSE IF r.ret THEN "listAllocated" ELSE "listRefused",
              n |-> n, clear |-> NumClear(fm0), fm |-> r.fm, hdr |-> r.hdr,
              offset |-> -1, sector |-> INVALID_SECTOR, defined |-> TRUE]
  /\ UNCHANGED <<disk, freeMapFile, directoryFile, OpenFileTable, last, snap,
                 nops, io>>

\* hdr->ByteToSector(offset) for an offset inside the file, as ReadAt and
\* WriteAt ask for; a read outside dataBlocks may give any value
DoListByteToSector(offset) ==
  /\ hd.pc = "listAllocated"
  /\ offset < hd.hdr.numBytes
  /\ \E r \in {ListByteToSector(hd.hdr, offset)} :
     \E s \in (IF r.ok THEN {r.sector} ELSE Sectors \cup {INVALID_SECTOR}) :
       hd' = [hd EXCEPT !.pc = "listMapped", !.offset = offset,
                        !.sector = s, !.defined = r.ok]
  /\ UNCHANGED <<disk, freeMapFile, directoryFile, OpenFileTable, last, snap,
                 nops, io>>

NextList ==
  \/ \E n \in ListSizes, k \in HdrTaken : DoListAllocate(n, k)
  \/ \E offset \in ListOffsets : DoListByteToSector(offset)

SpecList == Init /\ [][NextList]_vars

(***************************************************************************)
(* The claims.                                                             *)
(***************************************************************************)
Root == <<"/">>

Absolute(p) == Len(p) >= 1 /\ p[1] = "/"

CreateOrMkdir == last.op \in {"Create", "Mkdir"}

\* C1: after any sequence of successful calls, the bits set in the on-disk
\* bitmap are exactly the sectors reachable from the free-map header and from
\* the root directory tree: no leaked sector, no reachable sector marked free.
C1_BitmapIsReachable ==
  last.clean => DiskFreeMap(disk) = Reachable(disk)

\* C2: Remove(p, TRUE) of an existing directory other than the root returns
\* TRUE and p no longer resolves as a directory afterwards.
C2_RecursiveRemoveDropsDir ==
  (last.op = "Remove" /\ last.rec /\ last.path # Root
     /\ last.pre.dir # INVALID_SECTOR)
  => (last.ret = "TRUE" /\ ResolveDir(disk, last.path) = INVALID_SECTOR)

\* C3: Remove(d, TRUE) of a freshly made directory d, after any calls beneath
\* d, leaves the on-disk bitmap as it was before d was made.
C3_RecursiveRemoveRestoresBitmap ==
  (last.op = "Remove" /\ last.rec /\ last.ret = "TRUE"
     /\ snap.valid /\ snap.op = "Mkdir" /\ snap.path = last.path)
  => DiskFreeMap(disk) = snap.freeMap

\* C4: Create(p, n) and Mkdir(p) return FALSE and write nothing when p's
\* parent already holds an in-use entry of that name, of either type.
C4_ExistsEitherType ==
  (CreateOrMkdir /\ last.path # Root /\ Absolute(last.path)
     /\ (last.pre.dir # INVALID_SECTOR \/ last.pre.file # INVALID_SECTOR))
  => (last.ret = "FALSE" /\ last.log = <<>>)

\* C5: Create(p, n) and Mkdir(p) return FALSE and write nothing when a
\* non-terminal component of p does not resolve to an existing directory.
C5_MissingParentFails ==
  (CreateOrMkdir /\ last.path # Root /\ Absolute(last.path)
     /\ last.pre.parent = INVALID_SECTOR)
  => (last.ret = "FALSE" /\ last.log = <<>>)

\* C6: Create(p, n) of a new name in an existing directory returns FALSE and
\* writes nothing when the bitmap has fewer clear bits than the file needs
\* (header, child headers, data).
C6_NoSpaceReturnsFalse ==
  (last.op = "Create" /\ last.path # Root /\ Absolute(last.path)
     /\ last.pre.parent # INVALID_SECTOR /\ last.pre.file = INVALID_SECTOR
     /\ last.pre.clear < SectorsNeeded(last.size))
  => (last.ret = "FALSE" /\ last.log = <<>>)

\* the sector ByteToSector gives for each offset of the file whose header is
\* in s, as a set of <<file, logical sector, sector>>
Translations(d, s) ==
  LET h == FetchFrom(d, s, 0).hdr
  IN {<<s, b \div SectorSize, ByteToSector(h, b)>> :
        b \in 0 .. (FileLength(h) - 1)}

AllTranslations(d) ==
  UNION {Translations(d, s) : s \in FilesUnder(d, DirectorySector, 0)}

\* C7: after successful calls only, every offset of every file reachable from
\* the root translates to a sector whose bit is set, and no sector is given
\* to two files or to two logical sectors of one file.
C7_ByteToSectorSound ==
  last.clean =>
    /\ \A t \in AllTranslations(disk) : t[3] \in DiskFreeMap(disk)
    /\ \A t, u \in AllTranslations(disk) :
         t[3] = u[3] => (t[1] = u[1] /\ t[2] = u[2])

\* C8: a successful Create(p, n) in an existing directory, followed at once by
\* Remove(p, FALSE), leaves the on-disk bitmap and the parent's in-use entries
\* as before the Create.
C8_CreateRemoveRestores ==
  (last.op = "Remove" /\ ~last.rec /\ snap.valid /\ snap.op = "Create"
     /\ snap.path = last.path /\ nops = snap.at + 1
     /\ snap.parent # INVALID_SECTOR)
  => /\ last.ret = "TRUE"
     /\ DiskFreeMap(disk) = snap.freeMap
     /\ InUseEntries(disk, snap.parent) = snap.entries

\* C9: when Remove(p, r) has returned TRUE, a Remove(p, FALSE) that follows
\* at once returns FALSE and writes no sector.
C9_RemoveIdempotent ==
  [][(last.op = "Remove" /\ last.ret = "TRUE"
        /\ last'.op = "Remove" /\ ~last'.rec /\ last'.path = last.path
        /\ nops' = nops + 1)
     => (last'.ret = "FALSE" /\ last'.log = <<>>)]_vars

\* the in-use entry for p's last component, of the given type, in the
\* directory p names without its last component
EntryInParent(d, p, isDir, sector) ==
  [name |-> EncodeName(LastName(p), 1), isDir |-> isDir, sector |-> sector]
    \in InUseEntries(d, ResolveDir(d, DropLast(p)))

\* C10: after Create(p, n) returns TRUE, p resolves as a file of length n
\* whose entry is in the directory p names without its last component; after
\* Mkdir(p) returns TRUE, p resolves as a directory in the same way.
C10_CreatedWhereNamed ==
  /\ (last.op = "Create" /\ last.ret = "TRUE")
     => /\ ResolveFile(disk, last.path) # INVALID_SECTOR
        /\ FileLength(FetchFrom(disk, ResolveFile(disk, last.path), 0).hdr)
             = last.size
        /\ EntryInParent(disk, last.path, FILE, ResolveFile(disk, last.path))
  /\ (last.op = "Mkdir" /\ last.ret = "TRUE")
     => /\ ResolveDir(disk, last.path) # INVALID_SECTOR
        /\ EntryInParent(disk, last.path, DIR, ResolveDir(disk, last.path))

\* the place of a written sector in the order headers, directory, bitmap
WriteRank(kind) ==
  IF kind = "hdr" THEN 1 ELSE IF kind = "dir" THEN 2 ELSE 3

\* C11: a successful Create, Mkdir or Remove writes the file headers first,
\* then the directory table, then the bitmap file: no header or directory
\* sector is written after a bitmap sector.
C11_HeadersDirectoryBitmap ==
  (last.op \in {"Create", "Mkdir", "Remove"} /\ last.ret = "TRUE")
  => \A i, j \in 1 .. Len(last.log) :
       i < j => WriteRank(last.log[i].k) <= WriteRank(last.log[j].k)

\* the handle in slot id of the table is a handle of the file at path p
HandleOf(table, d, id, p) ==
  /\ isValidFileId(table, id)
  /\ ResolveFile(d, p) # INVALID_SECTOR
  /\ OpenFile(d, ResolveFile(d, p)).hdr = table[id].hdr

\* WriteFile_(buf, b, id) has just run on a fresh handle of the file at p,
\* with b no larger than the file
WroteFrom0(p) ==
  /\ io.op = "WriteFile_"
  /\ ~io.buffer.null /\ io.size >= 0
  /\ HandleOf(io.before, io.diskBefore, io.id, p)
  /\ io.before[io.id].seekPosition = 0
  /\ io.size <= FileLength(io.before[io.id].hdr)

\* CloseFile(id), id2 = OpenAFile(p), ReadFile(out, b, id2) run from the
\* state after the write: the result of the read
CloseReopenRead(p) ==
  With(FsCloseFile(OpenFileTable, disk, io.id), LAMBDA c :
  With(FsOpenAFile(c.table, disk, p), LAMBDA o :
  IF ~o.ok \/ o.ret = -1 THEN [ok |-> FALSE, position |-> -1, out |-> <<>>]
  ELSE With(FsReadFile(o.table, disk, io.buffer, io.size, o.ret), LAMBDA r :
       [ok |-> c.ret = 1 /\ r.ok /\ r.ret = io.size,
        position |-> o.table[o.ret].seekPosition,
        out |-> r.out])))

\* C12: after Create(p, n), id = OpenAFile(p) and WriteFile_(buf, b, id)
\* with b <= n, the write completes, and CloseFile(id), id2 = OpenAFile(p),
\* ReadFile(out, b, id2) read back the b bytes of buf from position 0, for
\* files of every level.
C12_WriteSurvivesReopen ==
  \A p \in TablePaths :
    WroteFrom0(p)
    => /\ ~io.abort
       /\ io.ret = io.size
       /\ CloseReopenRead(p).ok
       /\ CloseReopenRead(p).position = 0
       /\ CloseReopenRead(p).out = SubSeq(io.buffer.bytes, 1, io.size)

\* the stages of a header after a successful Allocate
Allocated == {"allocated", "written", "fetched", "rewritten", "freed"}

\* the bitmap had room for the whole tree of hd.n bytes
Enough == hd.pc # "idle" /\ hd.clear >= SectorsNeeded(hd.n) - 1

\* the depth of a header tree along its first children
RECURSIVE TreeLevel(_)
TreeLevel(hdr) ==
  IF hdr.children = <<>> THEN 0 ELSE 1 + TreeLevel(hdr.children[1])

\* the smallest L in 0 .. 3 with n <= MAX_SIZE[L]
SmallestLevel(n) ==
  CHOOSE L \in 0 .. (LEVEL_LIMIT - 1) :
    /\ n <= MAX_SIZE(L)
    /\ \A K \in 0 .. (LEVEL_LIMIT - 1) : n <= MAX_SIZE(K) => L <= K

\* the header sectors a WriteBack log names
LoggedHeaders(log) == {log[i].s : i \in 1 .. Len(log)}

\* the data sectors of a header: its flat mapping
MappedSectors(hdr) ==
  {hdr.dataSectorMapping[i] : i \in 1 .. Len(hdr.dataSectorMapping)}

\* C13: for every size n with 0 <= n <= MAX_SIZE[3] the header uses the
\* smallest level L in 0 .. 3 with n <= MAX_SIZE[L], where MAX_SIZE[0] =
\* NUM_DIRECT * SectorSize and MAX_SIZE[k] = NUM_DIRECT * MAX_SIZE[k-1]; the
\* tree Allocate builds and the tree FetchFrom reads back have that depth,
\* WriteBack writes the headers of that tree and Deallocate frees the data
\* sectors of that tree.
C13_SmallestLevel ==
  /\ MAX_SIZE(0) = NUM_DIRECT * SectorSize
  /\ \A k \in 1 .. (LEVEL_LIMIT - 1) : MAX_SIZE(k) = NUM_DIRECT * MAX_SIZE(k - 1)
  /\ (hd.pc # "idle" /\ hd.n <= MAX_SIZE(LEVEL_LIMIT - 1))
     => whichLv(hd.n) = SmallestLevel(hd.n)
  /\ (hd.pc \in Allocated /\ hd.n <= MAX_SIZE(LEVEL_LIMIT - 1))
     => /\ Enough => TreeLevel(hd.hdr) = SmallestLevel(hd.n)
        /\ (Enough /\ hd.pc \in {"fetched", "rewritten", "freed"})
           => TreeLevel(hd.fetched) = SmallestLevel(hd.n)
        /\ (Enough /\ hd.pc \in {"written", "rewritten", "freed"})
           => /\ Len(hd.log) = 1 + ChildHeaders(hd.n)
              /\ Cardinality(LoggedHeaders(hd.log)) = Len(hd.log)
              /\ LoggedHeaders(hd.log) \cap MappedSectors(hd.hdr) = {}
        /\ (Enough /\ hd.pc = "freed")
           => hd.fm \ hd.freed = MappedSectors(hd.hdr)

\* C13 witness: a header of MAX_SIZE[1] + 1 bytes, the smallest size of
\* level 2, went through Allocate, WriteBack, FetchFrom, WriteBack and
\* Deallocate with room for the whole tree.
C13_Witness ==
  /\ hd.pc = "freed" /\ Enough
  /\ hd.n = MAX_SIZE(1) + 1
  /\ TreeLevel(hd.fetched) = 2

\* the level the code derives for a header
Level(hdr) == whichLv(hdr.numBytes)

\* a header and every header below it
RECURSIVE Nodes(_)
Nodes(hdr) ==
  {hdr} \cup UNION {Nodes(hdr.children[i]) : i \in 1 .. Len(hdr.children)}

\* the header trees of the current stage: the one Allocate built and, once
\* FetchFrom has run, the one it read back
Trees ==
  IF hd.pc \in {"allocated", "written"} THEN {hd.hdr}
  ELSE IF hd.pc \in {"fetched", "rewritten", "freed"} THEN {hd.hdr, hd.fetched}
  ELSE {}

FilledLeftToRight(h) ==
  With(MAX_SIZE(Level(h) - 1), LAMBDA chunk :
  With(divRoundUp(h.numBytes, chunk), LAMBDA k :
    /\ Len(h.children) = k
    /\ NumChildren(h.dataSectors, 1) = k
    /\ \A i \in 1 .. NUM_DIRECT :
         (i > k) <=> (h.dataSectors[i] = INVALID_SECTOR)
    /\ \A i \in 1 .. k :
         /\ h.children[i].numBytes
              = (IF i < k THEN chunk ELSE h.numBytes - (k - 1) * chunk)
         /\ h.children[i].numBytes > 0
         /\ h.children[i].numDataSectors
              = divRoundUp(h.children[i].numBytes, SectorSize)))

\* C15: Allocate of n bytes at level L > 0 creates exactly
\* ceil(n / MAX_SIZE[L-1]) non-sentinel children, left to right; every child
\* but the last has numBytes = MAX_SIZE[L-1], the last has the remainder
\* n - (k-1) * MAX_SIZE[L-1] > 0, each child's numDataSectors is
\* ceil(numBytes / SectorSize), and the trailing slots stay INVALID_SECTOR.
\* It holds of the header Allocate was called on whenever Allocate returns
\* TRUE, and of every header below it when the bitmap had room for the tree.
C15_ChildrenLeftToRight ==
  hd.pc \in Allocated
  => /\ Level(hd.hdr) > 0 => FilledLeftToRight(hd.hdr)
     /\ Enough => \A h \in Nodes(hd.hdr) : Level(h) > 0 => FilledLeftToRight(h)

\* C15 witness: Allocate of MAX_SIZE[1] + SectorSize + 2 bytes (level 2)
\* returned TRUE: two children, MAX_SIZE[1] bytes and SectorSize + 2 bytes,
\* the second with 2 data sectors.
C15_Witness ==
  /\ hd.pc = "allocated" /\ Enough
  /\ hd.n = MAX_SIZE(1) + SectorSize + 2
  /\ Len(hd.hdr.children) = 2
  /\ hd.hdr.children[1].numBytes = MAX_SIZE(1)
  /\ hd.hdr.children[2].numBytes = SectorSize + 2
  /\ hd.hdr.children[2].numDataSectors = 2

\* C16: a successful Create(p, n) of a new name in an existing directory
\* sets exactly 1 + H(n) + ceil(n/SectorSize) new bits in the bitmap, H(n)
\* being the number of child-header sectors of the tree for n; for n = 0 that
\* is the one bit of the header, no data sector, and the file can be opened.
C16_CreateSetsExactBits ==
  (last.op = "Create" /\ last.ret = "TRUE" /\ Absolute(last.path)
     /\ last.pre.parent # INVALID_SECTOR /\ last.pre.file = INVALID_SECTOR
     /\ last.pre.dir = INVALID_SECTOR)
  => /\ last.pre.clear - NumClear(DiskFreeMap(disk)) = SectorsNeeded(last.size)
     /\ last.size = 0
        => /\ SectorsNeeded(last.size) = 1
           /\ FsOpen(disk, last.path).ok
           /\ FsOpen(disk, last.path).file.hdr.numDataSectors = 0

\* C17: for a header obtained by FetchFrom(s), an immediate WriteBack(s)
\* completes, writes sector s first and then child-header sectors only, one
\* per header of the tree, each with exactly the bytes already there; no
\* data sector is written and the disk is unchanged.
C17_FetchThenWriteBack ==
  [][hd.pc = "fetched"
     => /\ hd'.pc = "rewritten"
        /\ disk' = disk
        /\ Len(hd'.log) >= 1
        /\ hd'.log[1].s = hd.sector
        /\ \A i \in 1 .. Len(hd'.log) :
             /\ hd'.log[i].k = "hdr"
             /\ hd'.log[i].s \notin MappedSectors(hd.fetched)
             /\ \E h \in Nodes(hd.fetched) : disk[hd'.log[i].s] = HeaderImage(h)
        /\ Enough => Len(hd'.log) = 1 + ChildHeaders(hd.n)]_vars

\* C17 witness: the header of a MAX_SIZE[1] + 1 byte file (level 2, four
\* child headers) was fetched and written back.
C17_Witness ==
  /\ hd.pc = "rewritten" /\ Enough
  /\ hd.n = MAX_SIZE(1) + 1
  /\ Len(hd.log) = 5
  /\ disk = hd.before

\* the open handles of a table
OpenIds(table) == {id \in FileIds : table[id].open}

\* the header sector of the file, else of the directory, at path p
Existing(d, p) ==
  IF ResolveFile(d, p) # INVALID_SECTOR THEN ResolveFile(d, p)
  ELSE ResolveDir(d, p)

\* C18: OpenAFile(path) on an existing path stores the new handle in, and
\* returns, the smallest index in [0, FILE_OPEN_LIMIT) whose slot is free,
\* and leaves every other slot as it was; when all FILE_OPEN_LIMIT slots are
\* in use it returns -1 and leaves the table unchanged; the table never
\* holds more than FILE_OPEN_LIMIT handles.
C18_SmallestFreeIndex ==
  /\ DOMAIN OpenFileTable = FileIds
  /\ Cardinality(OpenIds(OpenFileTable)) <= FILE_OPEN_LIMIT
  /\ (io.op = "OpenAFile" /\ Existing(disk, io.path) # INVALID_SECTOR)
     => /\ ~io.abort
        /\ IF OpenIds(io.before) = FileIds
           THEN io.ret = -1 /\ OpenFileTable = io.before
           ELSE /\ io.ret \in FileIds \ OpenIds(io.before)
                /\ \A k \in FileIds : k < io.ret => k \in OpenIds(io.before)
                /\ OpenFileTable[io.ret].open
                /\ OpenFileTable[io.ret].seekPosition = 0
                /\ OpenFileTable[io.ret].hdr
                     = OpenFile(disk, Existing(disk, io.path)).hdr
                /\ \A k \in FileIds \ {io.ret} : OpenFileTable[k] = io.before[k]

\* the id of the latest call names no open handle
InvalidId == io.id \notin FileIds \/ ~io.before[io.id].open

\* C19: ReadFile, WriteFile_ and CloseFile return -1 and change neither the
\* descriptor table nor the disk when the id is outside [0, FILE_OPEN_LIMIT)
\* or names a free slot; CloseFile on an open id returns 1, frees that slot
\* and no other, and ReadFile, WriteFile_ and CloseFile on that id then
\* return -1.
C19_InvalidIdRejected ==
  /\ (io.op \in {"ReadFile", "WriteFile_", "CloseFile"} /\ InvalidId)
     => /\ ~io.abort
        /\ io.ret = -1
        /\ io.log = <<>>
        /\ OpenFileTable = io.before
        /\ disk = io.diskBefore
  /\ (io.op = "CloseFile" /\ ~InvalidId)
     => /\ ~io.abort
        /\ io.ret = 1
        /\ OpenFileTable = [io.before EXCEPT ![io.id] = NullFile]
        /\ disk = io.diskBefore
        /\ FsReadFile(OpenFileTable, disk, Pattern, 3, io.id).ret = -1
        /\ FsWriteFile(OpenFileTable, disk, Pattern, 3, io.id).ret = -1
        /\ FsCloseFile(OpenFileTable, disk, io.id).ret = -1

\* C19 witness: CloseFile on an open id returned 1 and freed the slot while
\* the other slot stayed open.
C19_Witness ==
  /\ io.op = "CloseFile" /\ ~InvalidId
  /\ io.ret = 1
  /\ ~OpenFileTable[io.id].open
  /\ \E k \in FileIds : OpenFileTable[k].open

\* C20: SysOpen(name) returns -1 with the descriptor table unchanged when
\* name resolves neither as a file nor as a directory; it does not abort the
\* kernel.
C20_OpenMissingReturnsMinusOne ==
  (io.op = "OpenAFile" /\ Existing(disk, io.path) = INVALID_SECTOR)
  => /\ ~io.abort
     /\ io.ret = -1
     /\ OpenFileTable = io.before

\* C21: immediately after FileSystem(format = TRUE) the on-disk bitmap has
\* exactly these bits set: sector 0, sector 1, the
\* ceil((NumSectors / 8) / SectorSize) data sectors of the free-map file and
\* the ceil(NumDirEntries * sizeof(DirectoryEntry) / SectorSize) data sectors
\* of the root directory file; the two sets of data sectors are disjoint and
\* hold neither 0 nor 1; the root directory has no in-use entry and every
\* slot of the descriptor table is free.
C21_FormattedDisk ==
  last.op = "Format"
  => With(MappedSectors(OpenFile(disk, FreeMapSector).hdr), LAMBDA mapData :
     With(MappedSectors(OpenFile(disk, DirectorySector).hdr), LAMBDA dirData :
       /\ FreeMapSector = 0 /\ DirectorySector = 1
       /\ DiskFreeMap(disk) = {0, 1} \cup mapData \cup dirData
       /\ Cardinality(mapData)
            = divRoundUp(NumSectors \div BitsInByte, SectorSize)
       /\ Cardinality(dirData)
            = divRoundUp(NumDirEntries * DirEntrySize, SectorSize)
       /\ mapData \cap dirData = {}
       /\ (mapData \cup dirData) \cap {0, 1} = {}
       /\ InUseEntries(disk, DirectorySector) = {}
       /\ OpenIds(OpenFileTable) = {}))

\* C21 witness: the state FileSystem(format = TRUE) leaves, with 5 of the
\* bitmap's bits set.
C21_Witness ==
  /\ last.op = "Format"
  /\ nops = 0
  /\ Cardinality(DiskFreeMap(disk)) = 5

\* C22: a path of PATH_NAME_MAX_LEN characters or more is silently treated
\* as not found: Create, Mkdir and Remove return FALSE and write no sector.
C22_LongPathNotFound ==
  (last.op \in {"Create", "Mkdir", "Remove"}
     /\ Len(last.path) >= PATH_NAME_MAX_LEN)
  => /\ last.ret = "FALSE"
     /\ last.log = <<>>

\* C23: Create(p, n) and Mkdir(p) return FALSE, write no sector and leave no
\* bitmap bit set when the parent directory already has NumDirEntries
\* in-use entries.
C23_DirFullReturnsFalse ==
  [][(nops' = nops + 1 /\ last'.op \in {"Create", "Mkdir"}
        /\ Absolute(last'.path) /\ Len(last'.path) > 1
        /\ last'.pre.parent # INVALID_SECTOR
        /\ (last'.op = "Create" => last'.pre.file = INVALID_SECTOR)
        /\ (last'.op = "Mkdir" => last'.pre.dir = INVALID_SECTOR)
        /\ Cardinality(InUseEntries(disk, last'.pre.parent)) = NumDirEntries)
     => /\ last'.ret = "FALSE"
        /\ last'.log = <<>>
        /\ disk' = disk]_vars

\* C24: whenever Create, Mkdir or Remove returns FALSE, no sector has been
\* written during the call: the disk (bitmap, every directory table, every
\* header) equals its value before the call.
C24_FalseWritesNothing ==
  [][(nops' = nops + 1 /\ last'.op \in {"Create", "Mkdir", "Remove"}
        /\ last'.ret = "FALSE")
     => /\ last'.log = <<>>
        /\ disk' = disk]_vars

C24_Witness ==
  /\ last.op \in {"Create", "Mkdir", "Remove"} /\ last.ret = "FALSE"
  /\ InUseEntries(disk, DirectorySector) # {}

\* C25: after Mkdir(p) returns TRUE the directory at p has payload size
\* NumDirEntries * sizeof(DirectoryEntry) and no in-use entry, whatever bytes
\* its newly allocated content sectors held before.
C25_MkdirEmptyTable ==
  (last.op = "Mkdir" /\ last.ret = "TRUE")
  => With(ResolveDir(disk, last.path), LAMBDA sector :
       /\ sector # INVALID_SECTOR
       /\ FileLength(OpenFile(disk, sector).hdr) = NumDirEntries * DirEntrySize
       /\ InUseEntries(disk, sector) = {})

\* the sectors some header or directory entry of the tree refers to: the
\* child and data sectors of the two reserved headers, and every sector of
\* the entries under the root
Referenced(d) ==
  HeaderSectors(FetchFrom(d, FreeMapSector, 0).hdr)
  \cup HeaderSectors(FetchFrom(d, DirectorySector, 0).hdr)
  \cup UNION {IF e.isDir THEN DirTreeSectors(d, e.sector, 1)
              ELSE FileSectors(d, e.sector) :
                e \in InUseEntries(d, DirectorySector)}

\* C26: in every reachable state, also after Remove("/", TRUE), bits 0 and 1
\* of the bitmap are set, sector 1 holds a valid directory header of size
\* NumDirEntries * sizeof(DirectoryEntry), "/" resolves as a directory to
\* sector 1, and no directory entry and no header refers to sector 0 or 1.
C26_RootAlwaysValid ==
  /\ {FreeMapSector, DirectorySector} \subseteq DiskFreeMap(disk)
  /\ FetchFrom(disk, DirectorySector, 0).ok
  /\ FileLength(FetchFrom(disk, DirectorySector, 0).hdr)
       = NumDirEntries * DirEntrySize
  /\ DirFetchFrom(disk, FetchFrom(disk, DirectorySector, 0).hdr).ok
  /\ ResolveDir(disk, Root) = DirectorySector
  /\ Referenced(disk) \cap {FreeMapSector, DirectorySector} = {}

\* a recursive Remove of the root that released sectors and left it empty
C26_Witness ==
  /\ last.op = "Remove" /\ last.rec /\ last.path = Root /\ last.ret = "TRUE"
  /\ last.pre.clear < NumClear(DiskFreeMap(disk))
  /\ InUseEntries(disk, DirectorySector) = {}

\* C27: Remove(p, recursive = FALSE) removes only regular files: when p names
\* a directory, empty or not, it returns FALSE and leaves the bitmap, the
\* parent directory and the directory's contents unchanged.
C27_PlainRemoveSparesDirectories ==
  [][(nops' = nops + 1 /\ last'.op = "Remove" /\ ~last'.rec
        /\ last'.pre.dir # INVALID_SECTOR)
     => /\ last'.ret = "FALSE"
        /\ disk' = disk]_vars

\* every in-use entry of the tree under the directory whose header is in s
RECURSIVE EntriesUnder(_, _, _)
EntriesUnder(d, s, depth) ==
  IF depth > NumSectors THEN {}
  ELSE InUseEntries(d, s) \cup
       UNION {EntriesUnder(d, e.sector, depth + 1) :
                e \in {x \in InUseEntries(d, s) : x.isDir}}

\* the header sectors of the directory entries / file entries among all
EntrySectors(all, isDir) == {e.sector : e \in {x \in all : x.isDir = isDir}}

\* what a lookup of p with the expected type found is an entry of that type
\* and name in the directory searched last, and that directory is the root
\* or the target of a directory entry; dirs and files are the header sectors
\* of the directory entries and of the file entries of the tree
TypedFind(d, p, isDir, dirs, files) ==
  With(find(d, directoryFile, p, isDir), LAMBDA f :
    /\ (f.ok /\ f.fhSector # INVALID_SECTOR)
       => /\ f.fhSector \in (IF isDir THEN dirs ELSE files)
          /\ f.fhSector \notin (IF isDir THEN files ELSE dirs)
          /\ \E e \in InUseEntries(d, f.pFhSector) :
               /\ e.sector = f.fhSector /\ e.isDir = isDir
               /\ e.name = EncodeName(f.filename, 1)
    /\ (f.ok /\ f.pFhSector # INVALID_SECTOR)
       => /\ f.pFhSector \in {DirectorySector} \cup dirs
          /\ f.pFhSector \notin files)

\* C28: typed lookup.  Resolving a path whose last component is expected to
\* be a file never returns the sector of a directory entry, resolving it as a
\* directory never returns a file entry's sector, and every component before
\* the last is matched only against entries with isDir = true.
C28_TypedLookup ==
  With(EntriesUnder(disk, DirectorySector, 0), LAMBDA all :
  With(EntrySectors(all, DIR), LAMBDA dirs :
  With(EntrySectors(all, FILE), LAMBDA files :
    \A p \in Paths \ {Root} :
      TypedFind(disk, p, FILE, dirs, files) /\ TypedFind(disk, p, DIR, dirs, files))))

\* a parent holds a file and a directory of one name, a file lies beneath
\* that directory, and each lookup returns the entry of its own type
C28_Witness ==
  \E p \in PathsOfDepth(1), q \in PathsOfDepth(2) :
    /\ Beneath(q, p)
    /\ ResolveFile(disk, p) # INVALID_SECTOR
    /\ ResolveDir(disk, p) # INVALID_SECTOR
    /\ ResolveFile(disk, p) # ResolveDir(disk, p)
    /\ ResolveFile(disk, q) # INVALID_SECTOR

\* the handle Open is to return for p on disk d: on the file's header when p
\* names a file, else on the directory's header, at position 0
HandleFor(d, p) ==
  With(ResolveFile(d, p), LAMBDA asFile :
  With(IF asFile # INVALID_SECTOR THEN asFile ELSE ResolveDir(d, p),
       LAMBDA sector :
  [open |-> TRUE, hdr |-> FetchFrom(d, sector, 0).hdr, seekPosition |-> 0]))

\* C29: Open(path) is a function of the disk state: it resolves path as a
\* file first and only if that fails as a directory, so when a parent holds
\* a file and a directory of that name the handle is on the file's header;
\* the handle's position starts at 0.
C29_OpenFileFirst ==
  (io.op = "OpenAFile" /\ ~io.abort /\ io.ret >= 0)
  => /\ OpenFileTable[io.ret] = HandleFor(io.diskBefore, io.path)
     /\ OpenFileTable[io.ret].seekPosition = 0
     /\ ResolveFile(io.diskBefore, io.path) # INVALID_SECTOR
        => OpenFileTable[io.ret].hdr
             = FetchFrom(io.diskBefore, ResolveFile(io.diskBefore, io.path), 0).hdr

\* an Open of a name that is both a file and a directory of different sizes
C29_Witness ==
  /\ io.op = "OpenAFile" /\ ~io.abort /\ io.ret >= 0
  /\ ResolveFile(io.diskBefore, io.path) # INVALID_SECTOR
  /\ ResolveDir(io.diskBefore, io.path) # INVALID_SECTOR
  /\ FileLength(OpenFileTable[io.ret].hdr) # NumDirEntries * DirEntrySize

\* C30: FileHeader::Allocate is all-or-nothing on the bitmap it is given: if
\* it cannot obtain every sector it needs (data sectors and child-header
\* sectors) it returns FALSE and the bitmap equals its value before the
\* call, also when the pre-check NumClear() >= numDataSectors passes but the
\* child headers exhaust the map.
C30_AllocateAllOrNothing ==
  (hd.pc # "idle" /\ hd.n <= MAX_SIZE(LEVEL_LIMIT - 1) /\ ~Enough)
  => /\ hd.pc = "refused"
     /\ NumClear(hd.fm) = hd.clear

\* C31: whenever the top-level Allocate(freeMap, n) returns TRUE, every child
\* allocation succeeded: dataSectorMapping has exactly ceil(n / SectorSize)
\* entries, pairwise distinct, none INVALID_SECTOR, each with its bit set in
\* freeMap, so ByteToSector's index is within the mapping for every offset
\* in [0, n).
C31_AllocateTrueMapsEverySector ==
  (hd.pc \in Allocated /\ hd.n <= MAX_SIZE(LEVEL_LIMIT - 1))
  => With(hd.hdr.dataSectorMapping, LAMBDA mapping :
       /\ hd.hdr.numDataSectors = divRoundUp(hd.n, SectorSize)
       /\ Len(mapping) = hd.hdr.numDataSectors
       /\ Cardinality(MappedSectors(hd.hdr)) = Len(mapping)
       /\ MappedSectors(hd.hdr) \subseteq (Sectors \cap hd.fm)
       /\ \A offset \in 0 .. (hd.n - 1) : (offset \div SectorSize) < Len(mapping))

\* the data sectors of the leaf headers of a tree, left to right, depth
\* first; a slot still holding INVALID_SECTOR is no data sector
RECURSIVE LeafSectors(_)
RECURSIVE LeafSectorsFrom(_, _)
LeafSectorsFrom(hdr, i) ==
  IF i > Len(hdr.children) THEN <<>>
  ELSE LeafSectors(hdr.children[i]) \o LeafSectorsFrom(hdr, i + 1)

LeafSectors(hdr) ==
  IF Level(hdr) <= 0
  THEN SelectSeq([i \in 1 .. Min(hdr.numDataSectors, NUM_DIRECT) |->
                    hdr.dataSectors[i]],
                 LAMBDA s : s # INVALID_SECTOR)
  ELSE LeafSectorsFrom(hdr, 1)

\* C32: the flat mapping agrees with the tree.  For a header filled by
\* Allocate and written with WriteBack(s), FetchFrom(s) into a fresh header
\* yields the same numBytes, numDataSectors and dataSectorMapping, and in
\* both headers the mapping is the left-to-right depth-first list of the
\* leaf headers' data sectors.
C32_MappingAgreesWithTree ==
  /\ (hd.pc \in Allocated /\ hd.n <= MAX_SIZE(LEVEL_LIMIT - 1))
     => hd.hdr.dataSectorMapping = LeafSectors(hd.hdr)
  /\ (hd.pc \in {"fetched", "rewritten", "freed"}
        /\ hd.n <= MAX_SIZE(LEVEL_LIMIT - 1))
     => /\ hd.fetched.numBytes = hd.hdr.numBytes
        /\ hd.fetched.numDataSectors = hd.hdr.numDataSectors
        /\ hd.fetched.dataSectorMapping = hd.hdr.dataSectorMapping
        /\ hd.fetched.dataSectorMapping = LeafSectors(hd.fetched)

\* the bytes the children of a header were given, from child i on
RECURSIVE ChildBytes(_, _)
ChildBytes(hdr, i) ==
  IF i > Len(hdr.children) THEN 0
  ELSE hdr.children[i].numBytes + ChildBytes(hdr, i + 1)

\* Allocate stopped on an ASSERT (no later stage of the header ran)
AllocateAborted == hd.pc = "aborted" /\ hd.log = <<>>

\* C33: for every size n with 0 <= n <= MAX_SIZE[3], Allocate's loops end
\* with the remaining size exactly 0 and never use a slot index >= NUM_DIRECT
\* in dataSectors or children at any level; the recursion depth is at most 4.
C33_AllocateLoopsStayInBounds ==
  (hd.pc # "idle" /\ hd.n <= MAX_SIZE(LEVEL_LIMIT - 1))
  => /\ TreeLevel(hd.hdr) + 1 <= LEVEL_LIMIT
     /\ \A h \in Nodes(hd.hdr) :
          /\ Len(h.children) <= NUM_DIRECT
          /\ Len(h.children) = NumChildren(h.dataSectors, 1) \/ Level(h) = 0
          /\ hd.pc \in Allocated /\ h.children # <<>>
             => /\ ChildBytes(h, 1) = h.numBytes
                /\ \A i \in 1 .. Len(h.children) : h.children[i].numBytes > 0
     /\ AllocateAborted => NumClear(hd.fm) = 0
     /\ Enough => hd.pc # "aborted"

\* C33 witness: Allocate returned TRUE for a size of level 3 with room for
\* the tree: four levels of headers, both slots of the top header used
C33_Witness ==
  /\ hd.pc = "allocated" /\ Enough
  /\ TreeLevel(hd.hdr) = LEVEL_LIMIT - 1
  /\ Len(hd.hdr.children) = NUM_DIRECT
  /\ ChildBytes(hd.hdr, 1) = hd.n

\* the table of the directory whose header is in sector s
TableOf(d, s) == DirFetchFrom(d, OpenFile(d, s).hdr).table

\* the in-use slots of the tree: <<directory header sector, index>>
InUseSlots(d) ==
  With({DirectorySector} \cup EntrySectors(EntriesUnder(d, DirectorySector, 0), DIR),
       LAMBDA dirs :
  UNION {{<<s, i>> : i \in {j \in 1 .. NumDirEntries : TableOf(d, s)[j].inUse}} :
           s \in dirs})

\* C34: in every reachable state no directory table holds two in-use entries
\* with the same name and the same isDir flag, and no two in-use entries
\* anywhere in the tree reference the same header sector, also after calls
\* whose path has a missing intermediate directory.
C34_EntriesUnique ==
  With(InUseSlots(disk), LAMBDA slots :
    \A a \in slots, b \in slots :
      a # b
      => With(TableOf(disk, a[1])[a[2]], LAMBDA x :
         With(TableOf(disk, b[1])[b[2]], LAMBDA y :
           /\ x.sector # y.sector
           /\ a[1] = b[1] => ~(x.name = y.name /\ x.isDir = y.isDir))))

\* the strings handed to find: the paths of the calls (absolute ones, the
\* root, one without the leading '/') and the empty string
FindInputs == Paths \cup {<<>>}

\* C35: for every input string (absolute path, path without a leading '/',
\* empty string, "/"), when FileFinder::find finishes with exist = TRUE its
\* fhSector is a valid header sector, so the assertion in Open after a
\* successful find never fails and Remove never passes sector -1 to
\* returnSectorsToFreeMap.
C35_FoundMeansValidSector ==
  /\ \A p \in FindInputs, isDir \in BOOLEAN :
       With(find(disk, directoryFile, p, isDir), LAMBDA f :
         (f.ok /\ f.exist) => f.fhSector \in Sectors)
  /\ (last.op = "Remove" /\ ~last.rec /\ last.pre.file = INVALID_SECTOR
        /\ last.path # Root)
     => last.ret = "FALSE"

\* the sectors a WriteFile_ wrote
WrittenSectors(log) == {log[i].s : i \in 1 .. Len(log)}

\* C36: in every reachable state every handle held in the open-file table
\* maps only to sectors whose bitmap bit is set and that belong to no other
\* file: in any interleaving of OpenAFile, Remove, Create and WriteFile_, a
\* WriteFile_ through a handle never writes a sector that was freed by
\* Remove or has since been allocated to another file or header.
C36_HandlesMapLiveSectors ==
  /\ \A id \in FileIds :
       OpenFileTable[id].open
       => MappedSectors(OpenFileTable[id].hdr) \subseteq DiskFreeMap(disk)
  /\ (io.op = "WriteFile_" /\ io.ret > 0)
     => WrittenSectors(io.log) \subseteq DiskFreeMap(io.diskBefore)

\* the sectors of the chain of a linked-list header, from startSector on
ChainSectors(hdr) ==
  IF hdr.dataBlocks = <<>> THEN {}
  ELSE {hdr.startSector}
       \cup {hdr.dataBlocks[i].next : i \in 1 .. (Len(hdr.dataBlocks) - 1)}

\* ByteToSector answered with a sector of the chain
ListMappedInChain ==
  hd.pc = "listMapped"
  => /\ hd.defined
     /\ hd.sector # INVALID_SECTOR
     /\ hd.sector \in ChainSectors(hd.hdr)
     /\ hd.sector \in hd.fm

\* C37: in the linked-list header a successful Allocate(freeMap, n) reserves
\* enough blocks for the file's bytes: every block stores DATA_SIZE =
\* SectorSize - sizeof(int) payload bytes, so n <= numSectors * DATA_SIZE,
\* and ByteToSector(offset) for every offset in [0, n) returns a sector of
\* the chain starting at startSector.
C37_ListAllocateReservesEnough ==
  /\ (hd.pc \in {"listAllocated", "listMapped"})
     => hd.n <= hd.hdr.numSectors * DATA_SIZE
  /\ ListMappedInChain

====
